---- MODULE Spec2Model ----
(***************************************************************************)
(* A model of boardswarm/fastboot-rs:                                      *)
(*   - the split planner of android-sparse-image (split.rs, lib.rs),       *)
(*     specification SplitSpec;                                            *)
(*   - the fastboot client and its download helper (nusb.rs),              *)
(*     specification Spec.                                                 *)
(* Sizes are integers below 2^31; a u32 of 2^31 or more is held as the     *)
(* negative number with the same 32 bits, where the inputs reach it.       *)
(***************************************************************************)
EXTENDS Integers, Sequences, FiniteSets, TLC

(***************************************************************************)
(* Program constants                                                       *)
(***************************************************************************)
FILE_HEADER_BYTES_LEN == 28
CHUNK_HEADER_BYTES_LEN == 12
DEFAULT_BLOCKSIZE == 4096

\* A u32 of 2^31 or more is held as the negative number that has the same 32
\* bits: FromTop(d) is the u32 2^32 - d
FromTop(d) == 0 - d

\* 0xed26ff3a
HEADER_MAGIC == FromTop(316211398)

(***************************************************************************)
(* Bounds of the split planner's inputs                                    *)
(***************************************************************************)
\* longest chunk list given to split_image
MaxChunks == 3
\* largest chunk_size (in blocks) of an input chunk
MaxBlocks == 3
\* budgets run from one byte below the minimum to MaxSlack bytes above it
MaxSlack == 12
\* raw images have up to MaxRawBlocks blocks of 4096 bytes
MaxRawBlocks == 8
\* split_raw budgets go up to MaxRawBudget blocks of 4096 bytes
MaxRawBudget == 4

\* block sizes of the image headers that are tried
BlockSizes == {4, 32}

Min(a, b) == IF a < b THEN a ELSE b
Max(a, b) == IF a > b THEN a ELSE b

RECURSIVE SumSeq(_)
SumSeq(s) == IF s = <<>> THEN 0 ELSE Head(s) + SumSeq(Tail(s))

RECURSIVE Flatten(_)
Flatten(ss) == IF ss = <<>> THEN <<>> ELSE Head(ss) \o Flatten(Tail(ss))

(***************************************************************************)
(* lib.rs: chunk headers                                                   *)
(***************************************************************************)
ChunkType == {"Raw", "Fill", "DontCare", "Crc32"}

ChunkHeader(t, cs, ts) == [chunk_type |-> t, chunk_size |-> cs, total_size |-> ts]

new_dontcare(blocks) == ChunkHeader("DontCare", blocks, CHUNK_HEADER_BYTES_LEN)

new_raw(blocks, block_size) ==
    ChunkHeader("Raw", blocks, CHUNK_HEADER_BYTES_LEN + blocks * block_size)

new_fill(blocks) == ChunkHeader("Fill", blocks, CHUNK_HEADER_BYTES_LEN + 4)

\* (total_size as usize).saturating_sub(CHUNK_HEADER_BYTES_LEN)
data_size(c) == Max(c.total_size - CHUNK_HEADER_BYTES_LEN, 0)

\* chunk_size as usize * header.block_size as usize
out_size(c, block_size) == c.chunk_size * block_size

(***************************************************************************)
(* lib.rs: the byte form of the headers                                    *)
(***************************************************************************)
\* put_u16_le / put_u32_le: the bytes of v, lowest first
put_u16_le(v) == <<v % 256, (v \div 256) % 256>>

put_u32_le(v) ==
    <<v % 256, (v \div 256) % 256, (v \div 65536) % 256, (v \div 16777216) % 256>>

\* get_u16_le / get_u32_le on the bytes of b from position at on
get_u16_le(b, at) == b[at] + 256 * b[at + 1]

get_u32_le(b, at) ==
    b[at] + 256 * b[at + 1] + 65536 * b[at + 2]
      + 16777216 * (IF b[at + 3] >= 128 THEN b[at + 3] - 256 ELSE b[at + 3])

FileHeader(block_size, blocks, chunks, checksum) ==
    [block_size |-> block_size, blocks |-> blocks, chunks |-> chunks, checksum |-> checksum]

\* Result<_, ParseError>
ParseOk(h) == [ok |-> TRUE, err |-> "", header |-> h]
ParseErr(e) == [ok |-> FALSE, err |-> e, header |-> FileHeader(0, 0, 0, 0)]

\* mutant: the chunk-header size field is not looked at
FileHeader_from_bytes_NoChunkLen(bytes) ==
    IF get_u32_le(bytes, 1) # HEADER_MAGIC THEN ParseErr("UnknownMagic")
    ELSE IF get_u16_le(bytes, 5) # 1 THEN ParseErr("UnknownVersion")
    ELSE IF get_u16_le(bytes, 7) # 0 THEN ParseErr("UnknownVersion")
    ELSE IF FILE_HEADER_BYTES_LEN # get_u16_le(bytes, 9) THEN ParseErr("UnexpectedSize")
    ELSE ParseOk(FileHeader(get_u32_le(bytes, 13), get_u32_le(bytes, 17),
                            get_u32_le(bytes, 21), get_u32_le(bytes, 25)))

FileHeader_from_bytes(bytes) ==
    IF get_u32_le(bytes, 1) # HEADER_MAGIC THEN ParseErr("UnknownMagic")
    ELSE IF get_u16_le(bytes, 5) # 1 THEN ParseErr("UnknownVersion")
    ELSE IF get_u16_le(bytes, 7) # 0 THEN ParseErr("UnknownVersion")
    ELSE IF FILE_HEADER_BYTES_LEN # get_u16_le(bytes, 9) THEN ParseErr("UnexpectedSize")
    ELSE IF CHUNK_HEADER_BYTES_LEN # get_u16_le(bytes, 11) THEN ParseErr("UnexpectedSize")
    ELSE ParseOk(FileHeader(get_u32_le(bytes, 13), get_u32_le(bytes, 17),
                            get_u32_le(bytes, 21), get_u32_le(bytes, 25)))

FileHeader_to_bytes(h) ==
    put_u32_le(HEADER_MAGIC) \o put_u16_le(1) \o put_u16_le(0)
      \o put_u16_le(FILE_HEADER_BYTES_LEN) \o put_u16_le(CHUNK_HEADER_BYTES_LEN)
      \o put_u32_le(h.block_size) \o put_u32_le(h.blocks)
      \o put_u32_le(h.chunks) \o put_u32_le(h.checksum)

\* the discriminants of ChunkType: 0xcac1 .. 0xcac4
ChunkTypeRepr ==
    [Raw |-> 51905, Fill |-> 51906, DontCare |-> 51907, Crc32 |-> 51908]

\* ChunkType::from_repr
from_repr(v) ==
    IF \E t \in ChunkType : ChunkTypeRepr[t] = v
    THEN [some |-> TRUE, t |-> CHOOSE t \in ChunkType : ChunkTypeRepr[t] = v]
    ELSE [some |-> FALSE, t |-> "Raw"]

\* mutant: chunk_size is written with its bytes highest first
ChunkHeader_to_bytes_BigEndian(c) ==
    LET le == put_u32_le(c.chunk_size)
    IN  put_u16_le(ChunkTypeRepr[c.chunk_type]) \o put_u16_le(0)
          \o <<le[4], le[3], le[2], le[1]>> \o put_u32_le(c.total_size)

ChunkHeader_to_bytes(c) ==
    put_u16_le(ChunkTypeRepr[c.chunk_type]) \o put_u16_le(0)
      \o put_u32_le(c.chunk_size) \o put_u32_le(c.total_size)

ChunkHeader_from_bytes(bytes) ==
    LET chunk_type == from_repr(get_u16_le(bytes, 1))
    IN  IF ~chunk_type.some THEN ParseErr("UnknownChunkType")
        ELSE ParseOk(ChunkHeader(chunk_type.t, get_u32_le(bytes, 5), get_u32_le(bytes, 9)))

(***************************************************************************)
(* split.rs: Split and SplitBuilder                                        *)
(***************************************************************************)
SplitChunk(h, off, sz) == [header |-> h, offset |-> off, size |-> sz]

\* mutant: the header counts the blocks of the chunks after the first one
Split_from_chunks_SkipFirst(chunks, block_size) ==
    [header |-> [block_size |-> block_size,
                 blocks |-> SumSeq([i \in 1..(Len(chunks) - 1) |-> chunks[i + 1].header.chunk_size]),
                 chunks |-> Len(chunks),
                 checksum |-> 0],
     chunks |-> chunks]

Split_from_chunks(chunks, block_size) ==
    [header |-> [block_size |-> block_size,
                 blocks |-> SumSeq([i \in 1..Len(chunks) |-> chunks[i].header.chunk_size]),
                 chunks |-> Len(chunks),
                 checksum |-> 0],
     chunks |-> chunks]

sparse_size(split) ==
    FILE_HEADER_BYTES_LEN
      + SumSeq([i \in 1..Len(split.chunks) |-> split.chunks[i].header.total_size])

\* mutant: a new builder never seeks to its block offset
SplitBuilder_new_NoSeek(block_size, space, blocks_offset) ==
    [space |-> space - FILE_HEADER_BYTES_LEN, block_size |-> block_size, chunks |-> <<>>]

SplitBuilder_new(block_size, space, blocks_offset) ==
    LET s0 == space - FILE_HEADER_BYTES_LEN
        h  == new_dontcare(blocks_offset)
    IN  IF blocks_offset = 0
        THEN [space |-> s0, block_size |-> block_size, chunks |-> <<>>]
        ELSE [space |-> s0 - h.total_size, block_size |-> block_size,
              chunks |-> <<SplitChunk(h, 0, 0)>>]

\* mutant: a chunk that fills the space to the byte is taken whole
Fits_ToTheByte(b, chunk) == b.space >= chunk.total_size

\* the test of try_add_chunk: the chunk is taken whole
Fits(b, chunk) == b.space > chunk.total_size

\* mutant: the payload size of a chunk taken whole includes its header
try_add_chunk_SizeWithHeader(b, chunk, image_offset) ==
    IF Fits(b, chunk)
    THEN [ok |-> TRUE,
          b |-> [b EXCEPT !.chunks = Append(@, SplitChunk(chunk, image_offset, chunk.total_size)),
                          !.space = @ - chunk.total_size]]
    ELSE [ok |-> FALSE, b |-> b]

\* mutant: the chunk takes its space in the builder but is not pushed
try_add_chunk_NoPush(b, chunk, image_offset) ==
    IF Fits(b, chunk)
    THEN [ok |-> TRUE, b |-> [b EXCEPT !.space = @ - chunk.total_size]]
    ELSE [ok |-> FALSE, b |-> b]

\* returns the builder after the call and whether the chunk was added
try_add_chunk(b, chunk, image_offset) ==
    IF Fits(b, chunk)
    THEN [ok |-> TRUE,
          b |-> [b EXCEPT !.chunks = Append(@, SplitChunk(chunk, image_offset, data_size(chunk))),
                          !.space = @ - chunk.total_size]]
    ELSE [ok |-> FALSE, b |-> b]

\* mutant: the chunk header of the Raw part is not taken off the space
BlocksLeft_NoHeader(b) == b.space \div b.block_size

\* self.space.saturating_sub(CHUNK_HEADER_BYTES_LEN) / self.block_size
BlocksLeft(b) == Max(b.space - CHUNK_HEADER_BYTES_LEN, 0) \div b.block_size

\* mutant: the payload size of a Raw part includes its header
add_raw_SizeWithHeader(b, image_offset, blocks) ==
    LET blocks_left == BlocksLeft(b)
        n == Min(blocks, blocks_left)
        header == new_raw(n, b.block_size)
    IN  IF blocks_left > 0
        THEN [taken |-> n,
              b |-> [b EXCEPT !.space = @ - header.total_size,
                              !.chunks = Append(@, SplitChunk(header, image_offset, header.total_size))]]
        ELSE [taken |-> 0, b |-> b]

\* returns the builder after the call and the blocks taken up
add_raw(b, image_offset, blocks) ==
    LET blocks_left == BlocksLeft(b)
        n == Min(blocks, blocks_left)
        header == new_raw(n, b.block_size)
    IN  IF blocks_left > 0
        THEN [taken |-> n,
              b |-> [b EXCEPT !.space = @ - header.total_size,
                              !.chunks = Append(@, SplitChunk(header, image_offset, data_size(header)))]]
        ELSE [taken |-> 0, b |-> b]

SplitBuilder_finish(b) == Split_from_chunks(b.chunks, b.block_size)

\* a < b on u32
U32Less(a, b) == IF (a < 0) = (b < 0) THEN a < b ELSE b < 0

\* a + b on u32 overflows, for a below 2^31: the sum passes 2^32
U32AddOverflows(a, b) == b < 0 /\ a + b >= 0

\* the u32 sum of check_minimal_size overflows: a build with overflow checks
\* panics there, one without them goes on with the sum modulo 2^32
MinimalSizeOverflows(block_size) ==
    U32AddOverflows(FILE_HEADER_BYTES_LEN + 2 * CHUNK_HEADER_BYTES_LEN, block_size)

\* TRUE when the size passes the check (Ok), FALSE for Err(TooSmall); the sum
\* is the u32 sum, modulo 2^32
check_minimal_size(size, block_size) ==
    ~U32Less(size, FILE_HEADER_BYTES_LEN + 2 * CHUNK_HEADER_BYTES_LEN + block_size)

RECURSIVE RawLoop_StaleOffset(_, _, _, _, _, _)
RECURSIVE RawLoop(_, _, _, _, _, _)

\* mutant: the builder opened inside a Raw chunk seeks to the start of the
\* chunk, not to the blocks already emitted
RawLoop_StaleOffset(st, chunk, image_offset, block_offset, block_size, size) ==
    LET r == add_raw(st.builder,
                     image_offset + st.blocks * block_size,
                     chunk.chunk_size - st.blocks)
        blocks == st.blocks + r.taken
    IN  IF blocks >= chunk.chunk_size
        THEN [builder |-> r.b, splits |-> st.splits, blocks |-> blocks]
        ELSE RawLoop_StaleOffset([builder |-> SplitBuilder_new(block_size, size, block_offset),
                      splits |-> Append(st.splits, SplitBuilder_finish(r.b)),
                      blocks |-> blocks],
                     chunk, image_offset, block_offset, block_size, size)

\* the loop of split_image that packs a Raw chunk in parts; st carries
\* builder, splits and the blocks of the chunk emitted so far
RawLoop(st, chunk, image_offset, block_offset, block_size, size) ==
    LET r == add_raw(st.builder,
                     image_offset + st.blocks * block_size,
                     chunk.chunk_size - st.blocks)
        blocks == st.blocks + r.taken
    IN  IF blocks >= chunk.chunk_size
        THEN [builder |-> r.b, splits |-> st.splits, blocks |-> blocks]
        ELSE RawLoop([builder |-> SplitBuilder_new(block_size, size, block_offset + blocks),
                      splits |-> Append(st.splits, SplitBuilder_finish(r.b)),
                      blocks |-> blocks],
                     chunk, image_offset, block_offset, block_size, size)

\* mutant: the DontCare chunks of the image do not advance the block offset
FoldChunk_SkipDontCare(acc, chunk, block_size, size) ==
    LET t == try_add_chunk(acc.builder, chunk, acc.image_offset)
        next(b, s) == [err |-> FALSE,
                       block_offset |-> acc.block_offset
                                          + (IF chunk.chunk_type = "DontCare" THEN 0
                                             ELSE chunk.chunk_size),
                       image_offset |-> acc.image_offset + chunk.total_size,
                       builder |-> b, splits |-> s]
    IN  IF t.ok THEN next(t.b, acc.splits)
        ELSE IF chunk.chunk_type = "Raw"
        THEN LET r == RawLoop([builder |-> acc.builder, splits |-> acc.splits, blocks |-> 0],
                              chunk, acc.image_offset, acc.block_offset, block_size, size)
             IN  next(r.builder, r.splits)
        ELSE LET fresh == SplitBuilder_new(block_size, size, acc.block_offset)
                 t2 == try_add_chunk(fresh, chunk, acc.image_offset)
             IN  IF t2.ok
                 THEN next(t2.b, Append(acc.splits, SplitBuilder_finish(acc.builder)))
                 ELSE [acc EXCEPT !.err = TRUE]

\* mutant: the Split that a Fill, DontCare or Crc32 chunk does not fit is
\* dropped, not finished
FoldChunk_DropsFull(acc, chunk, block_size, size) ==
    LET t == try_add_chunk(acc.builder, chunk, acc.image_offset)
        next(b, s) == [err |-> FALSE,
                       block_offset |-> acc.block_offset + chunk.chunk_size,
                       image_offset |-> acc.image_offset + chunk.total_size,
                       builder |-> b, splits |-> s]
    IN  IF t.ok THEN next(t.b, acc.splits)
        ELSE IF chunk.chunk_type = "Raw"
        THEN LET r == RawLoop([builder |-> acc.builder, splits |-> acc.splits, blocks |-> 0],
                              chunk, acc.image_offset, acc.block_offset, block_size, size)
             IN  next(r.builder, r.splits)
        ELSE LET fresh == SplitBuilder_new(block_size, size, acc.block_offset)
                 t2 == try_add_chunk(fresh, chunk, acc.image_offset)
             IN  IF t2.ok
                 THEN next(t2.b, acc.splits)
                 ELSE [acc EXCEPT !.err = TRUE]

\* mutant: every chunk that is not Raw opens a Split of its own
FoldChunk_SplitPerChunk(acc, chunk, block_size, size) ==
    LET t == try_add_chunk(acc.builder, chunk, acc.image_offset)
        next(b, s) == [err |-> FALSE,
                       block_offset |-> acc.block_offset + chunk.chunk_size,
                       image_offset |-> acc.image_offset + chunk.total_size,
                       builder |-> b, splits |-> s]
    IN  IF t.ok /\ chunk.chunk_type = "Raw" THEN next(t.b, acc.splits)
        ELSE IF chunk.chunk_type = "Raw"
        THEN LET r == RawLoop([builder |-> acc.builder, splits |-> acc.splits, blocks |-> 0],
                              chunk, acc.image_offset, acc.block_offset, block_size, size)
             IN  next(r.builder, r.splits)
        ELSE LET fresh == SplitBuilder_new(block_size, size, acc.block_offset)
                 t2 == try_add_chunk(fresh, chunk, acc.image_offset)
             IN  IF t2.ok
                 THEN next(t2.b, Append(acc.splits, SplitBuilder_finish(acc.builder)))
                 ELSE [acc EXCEPT !.err = TRUE]

\* the closure given to try_fold in split_image, applied to one chunk
FoldChunk(acc, chunk, block_size, size) ==
    LET t == try_add_chunk(acc.builder, chunk, acc.image_offset)
        next(b, s) == [err |-> FALSE,
                       block_offset |-> acc.block_offset + chunk.chunk_size,
                       image_offset |-> acc.image_offset + chunk.total_size,
                       builder |-> b, splits |-> s]
    IN  IF t.ok THEN next(t.b, acc.splits)
        ELSE IF chunk.chunk_type = "Raw"
        THEN LET r == RawLoop([builder |-> acc.builder, splits |-> acc.splits, blocks |-> 0],
                              chunk, acc.image_offset, acc.block_offset, block_size, size)
             IN  next(r.builder, r.splits)
        ELSE LET fresh == SplitBuilder_new(block_size, size, acc.block_offset)
                 t2 == try_add_chunk(fresh, chunk, acc.image_offset)
             IN  IF t2.ok
                 THEN next(t2.b, Append(acc.splits, SplitBuilder_finish(acc.builder)))
                 ELSE [acc EXCEPT !.err = TRUE]

\* mutant: the byte cursor starts at the first chunk header
FoldInit_AtChunkHeader(block_size, size) ==
    [err |-> FALSE,
     block_offset |-> 0,
     image_offset |-> FILE_HEADER_BYTES_LEN,
     builder |-> SplitBuilder_new(block_size, size, 0),
     splits |-> <<>>]

\* the initial accumulator of the fold
FoldInit(block_size, size) ==
    [err |-> FALSE,
     block_offset |-> 0,
     image_offset |-> FILE_HEADER_BYTES_LEN + CHUNK_HEADER_BYTES_LEN,
     builder |-> SplitBuilder_new(block_size, size, 0),
     splits |-> <<>>]

\* A raw_size (usize) is held as its whole blocks and the bytes beyond them:
\* raw_size = blocks * DEFAULT_BLOCKSIZE + rest, rest < DEFAULT_BLOCKSIZE
RawSize(blocks, rest) == [blocks |-> blocks, rest |-> rest]

\* raw_size.div_ceil(DEFAULT_BLOCKSIZE)
raw_blocks_of(raw_size) == raw_size.blocks + (IF raw_size.rest > 0 THEN 1 ELSE 0)

\* the block offsets from which block_offset * DEFAULT_BLOCKSIZE passes 2^32
U32Blocks == (2^30 \div DEFAULT_BLOCKSIZE) * 4

\* block_offset * DEFAULT_BLOCKSIZE on u32 overflows: a build with overflow
\* checks panics there, one without them goes on with the product modulo 2^32
RawOffsetOverflows(block_offset) == block_offset >= U32Blocks

\* (block_offset * DEFAULT_BLOCKSIZE) as usize, the product modulo 2^32 (held
\* as a negative number from 2^31 on)
raw_offset(block_offset) ==
    LET m == block_offset % U32Blocks
    IN  IF 2 * m < U32Blocks
        THEN m * DEFAULT_BLOCKSIZE
        ELSE (m - U32Blocks) * DEFAULT_BLOCKSIZE

(***************************************************************************)
(* The planner as a state machine: one step per chunk of the fold of       *)
(* split_image, one step per iteration of the loop of split_raw.           *)
(***************************************************************************)
VARIABLES
    sp_mode,      \* "image" (split_image) or "raw" (split_raw)
    sp_pc,        \* "start", "fold", "done" (Ok(splits)), "err" (Err(TooSmall)), "panic"
    sp_bs,        \* header.block_size, DEFAULT_BLOCKSIZE for split_raw
    sp_chunks,    \* the input chunk headers (split_image)
    sp_raw,       \* raw_size (split_raw)
    sp_size,      \* the budget
    sp_idx,       \* chunks folded so far
    sp_acc,       \* the accumulator of the fold / block_offset and splits of split_raw
    sp_out        \* the Splits returned

spvars == <<sp_mode, sp_pc, sp_bs, sp_chunks, sp_raw, sp_size, sp_idx, sp_acc, sp_out>>

VARIABLES
    max_out,      \* max packet size of the OUT endpoint
    pc,           \* "idle", "cmd_wait", "resp_wait", "handle" (a DataDownload is live),
                  \* "ext_wait", "gmd_wait", "fin_drain"
    op,           \* the client operation that reads responses: "get_var", ..., "download", "finish"
    pending,      \* ep_out: transfers submitted and not yet completed, oldest first
    dl,           \* the DataDownload: size, left, current buffer
    rest,         \* extend_from_slice: bytes of the slice not yet copied
    result,       \* the call that is running, or the last call and what it returned
    hist,         \* history of the download
    ncmds,        \* commands sent
    ninfo,        \* INFO and TEXT responses to the running command
    ncalls        \* calls on the download handle

dlvars == <<max_out, pc, op, pending, dl, rest, result, hist, ncmds, ninfo, ncalls>>

VARIABLES
    cd_what,      \* "file" or "chunk": the header type whose byte form is used
    cd_pc,        \* "start" (a header is given), "encoded", "echoed" (read back),
                  \* "bytes" (bytes are given), "parsed", "done" (not in use)
    cd_given,     \* the header given to to_bytes, or the fields the bytes were made of
    cd_bytes,     \* the 28 or 12 bytes
    cd_res        \* what from_bytes returned

cdvars == <<cd_what, cd_pc, cd_given, cd_bytes, cd_res>>

VARIABLES
    fl_splits,    \* the Splits of the image that is flashed
    fl_pc,        \* where flash is: "next" (the for loop over the Splits), "file_header",
                  \* "chunk" (the for loop over the chunks), "seek", "data" (the while
                  \* loop), "read", "flash", "done" (Ok(())), "failed" (an Err returned)
    fl_i,         \* Splits flashed so far
    fl_c,         \* chunks of the Split queued so far
    fl_left,      \* left
    fl_buf,       \* the length of the slice get_mut_data returned
    fl_file,      \* the position of the input file
    fl_log        \* the calls made on the client, the download handle and the file

flvars == <<fl_splits, fl_pc, fl_i, fl_c, fl_left, fl_buf, fl_file, fl_log>>

vars == <<spvars, dlvars, cdvars, flvars>>

\* the chunk headers tried for a block size: well-formed chunks of every type,
\* Raw chunks whose total_size disagrees with chunk_size, a Crc32 chunk that
\* claims a block
ChunkPool(bs) ==
    { new_raw(n, bs) : n \in 0..MaxBlocks }
      \cup { ChunkHeader("Raw", 1, CHUNK_HEADER_BYTES_LEN), ChunkHeader("Raw", 1, CHUNK_HEADER_BYTES_LEN + 3 * bs) }
      \cup { new_fill(n) : n \in {1, MaxBlocks} }
      \cup { new_dontcare(n) : n \in {0, 2} }
      \cup { ChunkHeader("Crc32", n, CHUNK_HEADER_BYTES_LEN + 4) : n \in {0, 1} }

SeqsUpTo(S, n) == UNION { [1..k -> S] : k \in 0..n }

MinBudget(bs) == FILE_HEADER_BYTES_LEN + 2 * CHUNK_HEADER_BYTES_LEN + bs

Budgets(bs) == (MinBudget(bs) - 1) .. (MinBudget(bs) + MaxSlack)

\* chunk headers whose total_size is below the length of a chunk header, as
\* ChunkHeader::from_bytes reads them from a damaged image, tried next to a
\* Raw chunk and a Fill chunk
ShortChunkPool(bs) ==
    { ChunkHeader("DontCare", 1, 0), ChunkHeader("Fill", 1, 8), new_raw(2, bs), new_fill(1) }

\* the image and the budget of the test split_simple
SimpleChunks == <<new_fill(8), new_raw(1024 - 8, DEFAULT_BLOCKSIZE)>>

SimpleBudget == 1024 * DEFAULT_BLOCKSIZE

\* block sizes near the top of u32, tried with an image without chunks
HugeBlockSizes == { FromTop(4), FromTop(52), FromTop(56) }

HugeBudgets == { 40, 48, 100 }

RawSizes == { RawSize(k, r) : k \in 0..MaxRawBlocks, r \in {0, 1} }

\* raw images of 4 GiB and of 6 GiB and a few blocks, tried with the largest
\* budget below 2^31
BigRawSizes == { RawSize(U32Blocks, 0), RawSize(U32Blocks + U32Blocks \div 2 + 2, 0) }

BigRawBudgets == { 2147483647 }

RawBudgets == { MinBudget(DEFAULT_BLOCKSIZE) - 1, MinBudget(DEFAULT_BLOCKSIZE) }
                \cup { k * DEFAULT_BLOCKSIZE : k \in 2..MaxRawBudget }

NoAcc == [err |-> FALSE, block_offset |-> 0, image_offset |-> 0,
          builder |-> [space |-> 0, block_size |-> 0, chunks |-> <<>>],
          splits |-> <<>>]

\* no header is encoded or decoded while the planner or the client runs
CodecIdle ==
    /\ cd_what = "file"
    /\ cd_pc = "done"
    /\ cd_given = FileHeader(0, 0, 0, 0)
    /\ cd_bytes = <<>>
    /\ cd_res = ParseErr("")

\* nothing is flashed while the planner, the codec or the client are looked at
FlashIdle ==
    /\ fl_splits = <<>>
    /\ fl_pc = "done"
    /\ fl_i = 0
    /\ fl_c = 0
    /\ fl_left = 0
    /\ fl_buf = 0
    /\ fl_file = 0
    /\ fl_log = <<>>

\* no client is used while the planner runs
DlIdle ==
    /\ max_out = 512
    /\ pc = "idle"
    /\ op = "none"
    /\ pending = <<>>
    /\ dl = [size |-> 0, left |-> 0, cur |-> [len |-> 0, cap |-> 0, data |-> <<>>]]
    /\ rest = 0
    /\ result = [op |-> "none", arg |-> 0, kind |-> "none", expected |-> 0, actual |-> 0, ret |-> 0,
                 msg |-> "", map |-> {}, sent |-> 0, resps |-> <<>>, rerr |-> FALSE]
    /\ hist = [handed |-> 0, pos |-> 0, sub_bytes |-> 0, sublog |-> <<>>, reads |-> 0, xfail |-> FALSE,
               stale |-> FALSE]
    /\ ncmds = 0
    /\ ninfo = 0
    /\ ncalls = 0

\* no image is planned while the client runs
SplitIdle ==
    /\ sp_mode = "image"
    /\ sp_pc = "start"
    /\ sp_bs = 4
    /\ sp_chunks = <<>>
    /\ sp_raw = 0
    /\ sp_size = 0
    /\ sp_idx = 0
    /\ sp_acc = NoAcc
    /\ sp_out = <<>>

SplitInit ==
    /\ DlIdle
    /\ CodecIdle
    /\ FlashIdle
    /\ sp_pc = "start"
    /\ sp_idx = 0
    /\ sp_acc = NoAcc
    /\ sp_out = <<>>
    /\ \/ /\ sp_mode = "image"
          /\ sp_bs \in BlockSizes
          /\ sp_chunks \in SeqsUpTo(ChunkPool(sp_bs), MaxChunks)
          /\ sp_size \in Budgets(sp_bs)
          /\ sp_raw = 0
       \/ /\ sp_mode = "image"
          /\ sp_bs = 4
          /\ sp_chunks \in SeqsUpTo(ShortChunkPool(sp_bs), 2)
          /\ sp_size \in Budgets(sp_bs)
          /\ sp_raw = 0
       \/ /\ sp_mode = "image"
          /\ sp_bs = DEFAULT_BLOCKSIZE
          /\ sp_chunks = SimpleChunks
          /\ sp_size = SimpleBudget
          /\ sp_raw = 0
       \/ /\ sp_mode = "image"
          /\ sp_bs \in HugeBlockSizes
          /\ sp_chunks = <<>>
          /\ sp_size \in HugeBudgets
          /\ sp_raw = 0
       \/ /\ sp_mode = "raw"
          /\ sp_bs = DEFAULT_BLOCKSIZE
          /\ sp_chunks = <<>>
          /\ sp_raw \in RawSizes
          /\ sp_size \in RawBudgets
       \/ /\ sp_mode = "raw"
          /\ sp_bs = DEFAULT_BLOCKSIZE
          /\ sp_chunks = <<>>
          /\ sp_raw \in BigRawSizes
          /\ sp_size \in BigRawBudgets

\* check_minimal_size(...)? at the head of split_image and split_raw
SplitCheck ==
    /\ sp_pc = "start"
    /\ \E overflow_checks \in BOOLEAN :
          IF overflow_checks /\ MinimalSizeOverflows(sp_bs)
          THEN /\ sp_pc' = "panic"
               /\ sp_acc' = sp_acc
          ELSE IF check_minimal_size(sp_size, sp_bs)
          THEN /\ sp_pc' = "fold"
               /\ sp_acc' = IF sp_mode = "image" THEN FoldInit(sp_bs, sp_size) ELSE NoAcc
          ELSE /\ sp_pc' = "err"
               /\ sp_acc' = sp_acc
    /\ UNCHANGED <<sp_mode, sp_bs, sp_chunks, sp_raw, sp_size, sp_idx, sp_out>>

\* one chunk of the try_fold of split_image
SplitFold ==
    /\ sp_pc = "fold"
    /\ sp_mode = "image"
    /\ sp_idx < Len(sp_chunks)
    /\ LET a == FoldChunk(sp_acc, sp_chunks[sp_idx + 1], sp_bs, sp_size)
       IN  /\ sp_acc' = a
           /\ sp_pc' = IF a.err THEN "err" ELSE "fold"
    /\ sp_idx' = sp_idx + 1
    /\ UNCHANGED <<sp_mode, sp_bs, sp_chunks, sp_raw, sp_size, sp_out>>

\* splits.push(builder.finish()); Ok(splits)
SplitFinish ==
    /\ sp_pc = "fold"
    /\ sp_mode = "image"
    /\ sp_idx = Len(sp_chunks)
    /\ sp_out' = Append(sp_acc.splits, SplitBuilder_finish(sp_acc.builder))
    /\ sp_pc' = "done"
    /\ UNCHANGED <<sp_mode, sp_bs, sp_chunks, sp_raw, sp_size, sp_idx, sp_acc>>

\* one iteration of the while loop of split_raw
SplitRawStep ==
    /\ sp_pc = "fold"
    /\ sp_mode = "raw"
    /\ raw_blocks_of(sp_raw) > sp_acc.block_offset
    /\ \E overflow_checks \in BOOLEAN :
          IF overflow_checks /\ RawOffsetOverflows(sp_acc.block_offset)
          THEN /\ sp_pc' = "panic"
               /\ UNCHANGED <<sp_acc, sp_idx>>
          ELSE /\ LET builder == SplitBuilder_new(DEFAULT_BLOCKSIZE, sp_size, sp_acc.block_offset)
                      r == add_raw(builder, raw_offset(sp_acc.block_offset),
                                   raw_blocks_of(sp_raw) - sp_acc.block_offset)
                  IN  sp_acc' = [sp_acc EXCEPT !.block_offset = @ + r.taken,
                                               !.splits = Append(@, SplitBuilder_finish(r.b))]
               /\ sp_idx' = sp_idx + 1
               /\ sp_pc' = sp_pc
    /\ UNCHANGED <<sp_mode, sp_bs, sp_chunks, sp_raw, sp_size, sp_out>>

\* the loop of split_raw ends: Ok(splits)
SplitRawDone ==
    /\ sp_pc = "fold"
    /\ sp_mode = "raw"
    /\ ~(raw_blocks_of(sp_raw) > sp_acc.block_offset)
    /\ sp_out' = sp_acc.splits
    /\ sp_pc' = "done"
    /\ UNCHANGED <<sp_mode, sp_bs, sp_chunks, sp_raw, sp_size, sp_idx, sp_acc>>

SplitNext ==
    \/ SplitCheck /\ UNCHANGED <<dlvars, cdvars, flvars>>
    \/ SplitFold /\ UNCHANGED <<dlvars, cdvars, flvars>>
    \/ SplitFinish /\ UNCHANGED <<dlvars, cdvars, flvars>>
    \/ SplitRawStep /\ UNCHANGED <<dlvars, cdvars, flvars>>
    \/ SplitRawDone /\ UNCHANGED <<dlvars, cdvars, flvars>>

SplitSpec == SplitInit /\ [][SplitNext]_vars

\* chunks of the images whose planning is followed to its end
MaxLiveChunks == 2

\* the inputs of the runs that are followed to their end: images of up to
\* MaxLiveChunks chunks with the smallest and the largest budgets, images
\* with block sizes next to 2^32, and the raw images
SplitLiveInit ==
    /\ DlIdle
    /\ CodecIdle
    /\ FlashIdle
    /\ sp_pc = "start"
    /\ sp_idx = 0
    /\ sp_acc = NoAcc
    /\ sp_out = <<>>
    /\ \/ /\ sp_mode = "image"
          /\ sp_bs \in BlockSizes
          /\ sp_chunks \in SeqsUpTo(ChunkPool(sp_bs), MaxLiveChunks)
          /\ sp_size \in { MinBudget(sp_bs) - 1, MinBudget(sp_bs), MinBudget(sp_bs) + MaxSlack }
          /\ sp_raw = 0
       \/ /\ sp_mode = "image"
          /\ sp_bs \in HugeBlockSizes
          /\ sp_chunks = <<>>
          /\ sp_size \in HugeBudgets
          /\ sp_raw = 0
       \/ /\ sp_mode = "raw"
          /\ sp_bs = DEFAULT_BLOCKSIZE
          /\ sp_chunks = <<>>
          /\ sp_raw \in RawSizes
          /\ sp_size \in RawBudgets
       \/ /\ sp_mode = "raw"
          /\ sp_bs = DEFAULT_BLOCKSIZE
          /\ sp_chunks = <<>>
          /\ sp_raw \in BigRawSizes
          /\ sp_size \in BigRawBudgets


\* a step of SplitNext can be taken: the call has not returned
SplitRunning == sp_pc \in {"start", "fold"}

\* split_image and split_raw run on, they are not suspended: weak fairness
\* of SplitNext, WF_vars(SplitNext), with its ENABLED <<SplitNext>>_vars
\* written out as SplitRunning
SplitLive ==
    /\ SplitLiveInit
    /\ [][SplitNext]_vars
    /\ ([]<>(~SplitRunning) \/ []<><<SplitNext>>_vars)

(***************************************************************************)
(* The byte form of the headers as a state machine: a header is written    *)
(* with to_bytes and read back, or 28 / 12 given bytes are read.           *)
(***************************************************************************)
\* u32 values tried in the fields of the headers: small ones, ones with
\* different bytes, the largest below 2^31, 0xaaaaaaaa and 0xffffffff
U32Values == {0, 1, 4096, 43981, 2147483647, FromTop(1431655766), FromTop(1)}

FileHeaders ==
    { FileHeader(bs, b, c, ck) : bs \in U32Values, b \in {0, 1325431, FromTop(1)},
                                 c \in {0, 177}, ck \in {0, 43981, FromTop(872415062)} }

ChunkHeaders ==
    { ChunkHeader(t, cs, ts) : t \in ChunkType, cs \in U32Values,
                               ts \in {0, CHUNK_HEADER_BYTES_LEN, 4108, FromTop(1)} }

\* the first five fields of the 28 bytes that are tried: the values the code
\* asks for, values next to them and values that agree with them in one byte
FileFields ==
    [magic : {HEADER_MAGIC, HEADER_MAGIC + 1, HEADER_MAGIC + 16777216, 0},
     major : {1, 0, 2, 257},
     minor : {0, 1, 256},
     header_len : {FILE_HEADER_BYTES_LEN, FILE_HEADER_BYTES_LEN - 1, FILE_HEADER_BYTES_LEN + 256},
     chunk_header_len : {CHUNK_HEADER_BYTES_LEN, 0, CHUNK_HEADER_BYTES_LEN + 256},
     header : {FileHeader(4096, 1325431, 177, FromTop(872415062)), FileHeader(0, 0, 0, 0)}]

\* the fields of the 12 bytes that are tried: the four types, the values
\* around them, a type with its two bytes swapped, any reserved bytes
ChunkFields ==
    [chunk_type : {51904, 51905, 51906, 51907, 51908, 51909, 0, 49610},
     reserved : {0, 1, 65535},
     chunk_size : {0, 8, FromTop(1146425057)},
     total_size : {0, CHUNK_HEADER_BYTES_LEN, 4108}]

\* 28 bytes with the given fields
FileBytesOf(f) ==
    put_u32_le(f.magic) \o put_u16_le(f.major) \o put_u16_le(f.minor)
      \o put_u16_le(f.header_len) \o put_u16_le(f.chunk_header_len)
      \o put_u32_le(f.header.block_size) \o put_u32_le(f.header.blocks)
      \o put_u32_le(f.header.chunks) \o put_u32_le(f.header.checksum)

\* 12 bytes with the given fields
ChunkBytesOf(f) ==
    put_u16_le(f.chunk_type) \o put_u16_le(f.reserved)
      \o put_u32_le(f.chunk_size) \o put_u32_le(f.total_size)

CodecInit ==
    /\ DlIdle
    /\ SplitIdle
    /\ FlashIdle
    /\ cd_res = ParseErr("")
    /\ \/ /\ cd_what = "file"
          /\ cd_pc = "start"
          /\ cd_given \in FileHeaders
          /\ cd_bytes = <<>>
       \/ /\ cd_what = "chunk"
          /\ cd_pc = "start"
          /\ cd_given \in ChunkHeaders
          /\ cd_bytes = <<>>
       \/ /\ cd_what = "file"
          /\ cd_pc = "bytes"
          /\ cd_given \in FileFields
          /\ cd_bytes = FileBytesOf(cd_given)
       \/ /\ cd_what = "chunk"
          /\ cd_pc = "bytes"
          /\ cd_given \in ChunkFields
          /\ cd_bytes = ChunkBytesOf(cd_given)

\* FileHeader::to_bytes
FileToBytes ==
    /\ cd_what = "file"
    /\ cd_pc = "start"
    /\ cd_bytes' = FileHeader_to_bytes(cd_given)
    /\ cd_pc' = "encoded"
    /\ UNCHANGED <<cd_what, cd_given, cd_res>>

\* FileHeader::from_bytes
FileFromBytes ==
    /\ cd_what = "file"
    /\ cd_pc \in {"encoded", "bytes"}
    /\ cd_res' = FileHeader_from_bytes(cd_bytes)
    /\ cd_pc' = IF cd_pc = "encoded" THEN "echoed" ELSE "parsed"
    /\ UNCHANGED <<cd_what, cd_given, cd_bytes>>

\* ChunkHeader::to_bytes
ChunkToBytes ==
    /\ cd_what = "chunk"
    /\ cd_pc = "start"
    /\ cd_bytes' = ChunkHeader_to_bytes(cd_given)
    /\ cd_pc' = "encoded"
    /\ UNCHANGED <<cd_what, cd_given, cd_res>>

\* ChunkHeader::from_bytes
ChunkFromBytes ==
    /\ cd_what = "chunk"
    /\ cd_pc \in {"encoded", "bytes"}
    /\ cd_res' = ChunkHeader_from_bytes(cd_bytes)
    /\ cd_pc' = IF cd_pc = "encoded" THEN "echoed" ELSE "parsed"
    /\ UNCHANGED <<cd_what, cd_given, cd_bytes>>

CodecNext ==
    \/ FileToBytes /\ UNCHANGED <<spvars, dlvars, flvars>>
    \/ FileFromBytes /\ UNCHANGED <<spvars, dlvars, flvars>>
    \/ ChunkToBytes /\ UNCHANGED <<spvars, dlvars, flvars>>
    \/ ChunkFromBytes /\ UNCHANGED <<spvars, dlvars, flvars>>

CodecSpec == CodecInit /\ [][CodecNext]_vars

(***************************************************************************)
(* fastbootrs.rs: flash, from "Flashing in {} parts" on. The calls on the   *)
(* client, the download handle and the input file are logged with what     *)
(* they were given; each of them returns Ok or an error.                   *)
(***************************************************************************)
\* the partition name given on the command line
Target == "system"

\* the block size of the Splits that are flashed
FlashBlockSize == 4

\* get_mut_data returns a slice of at most this many bytes, or all it was asked for
SliceBytes == 3

\* Splits as the planner returns them: chunks of an image, with and without a prefix
FlashSplits ==
    { Split_from_chunks(<<SplitChunk(new_raw(2, FlashBlockSize), 40, 2 * FlashBlockSize),
                          SplitChunk(new_fill(1), 60, 4)>>, FlashBlockSize),
      Split_from_chunks(<<SplitChunk(new_dontcare(3), 0, 0),
                          SplitChunk(new_raw(1, FlashBlockSize), 76, FlashBlockSize)>>,
                        FlashBlockSize),
      Split_from_chunks(<<>>, FlashBlockSize) }

\* Splits flashed in one run
MaxSplits == 2

Call(c, a, n, ok) == [call |-> c, arg |-> a, n |-> n, ok |-> ok]

\* mutant: the error of a call is dropped
Try_Unchecked(ok, then) == then

\* the ? after a call: an error ends flash
Try(ok, then) == IF ok THEN then ELSE "failed"

FlashInit ==
    /\ DlIdle
    /\ SplitIdle
    /\ CodecIdle
    /\ fl_splits \in SeqsUpTo(FlashSplits, MaxSplits)
    /\ fl_pc = "next"
    /\ fl_i = 0
    /\ fl_c = 0
    /\ fl_left = 0
    /\ fl_buf = 0
    /\ fl_file = 0
    /\ fl_log = <<>>

\* fb.download(split.sparse_size() as u32) for the next Split
FlashDownload(ok) ==
    /\ fl_pc = "next"
    /\ fl_i < Len(fl_splits)
    /\ fl_log' = Append(fl_log, Call("download", sparse_size(fl_splits[fl_i + 1]), 0, ok))
    /\ fl_pc' = Try(ok, "file_header")
    /\ UNCHANGED <<fl_splits, fl_i, fl_c, fl_left, fl_buf, fl_file>>

\* the for loop over the Splits has ended: Ok(())
FlashReturn ==
    /\ fl_pc = "next"
    /\ fl_i = Len(fl_splits)
    /\ fl_pc' = "done"
    /\ UNCHANGED <<fl_splits, fl_i, fl_c, fl_left, fl_buf, fl_file, fl_log>>

\* sender.extend_from_slice(&split.header.to_bytes())
FlashFileHeader(ok) ==
    /\ fl_pc = "file_header"
    /\ fl_log' = Append(fl_log, Call("extend_from_slice",
                                     FileHeader_to_bytes(fl_splits[fl_i + 1].header), 0, ok))
    /\ fl_pc' = Try(ok, "chunk")
    /\ fl_c' = 0
    /\ UNCHANGED <<fl_splits, fl_i, fl_left, fl_buf, fl_file>>

\* sender.extend_from_slice(&chunk.header.to_bytes()) for the next chunk
FlashChunkHeader(ok) ==
    /\ fl_pc = "chunk"
    /\ fl_c < Len(fl_splits[fl_i + 1].chunks)
    /\ fl_log' = Append(fl_log, Call("extend_from_slice",
                                     ChunkHeader_to_bytes(fl_splits[fl_i + 1].chunks[fl_c + 1].header),
                                     0, ok))
    /\ fl_pc' = Try(ok, "seek")
    /\ UNCHANGED <<fl_splits, fl_i, fl_c, fl_left, fl_buf, fl_file>>

\* where the while loop goes with left bytes to read
AfterData(left) == IF left > 0 THEN "data" ELSE "chunk"

\* f.seek(SeekFrom::Start(chunk.offset)) and let mut left = chunk.size
FlashSeek(ok) ==
    /\ fl_pc = "seek"
    /\ LET chunk == fl_splits[fl_i + 1].chunks[fl_c + 1]
       IN  /\ fl_log' = Append(fl_log, Call("seek", chunk.offset, 0, ok))
           /\ fl_file' = IF ok THEN chunk.offset ELSE fl_file
           /\ fl_left' = chunk.size
           /\ fl_pc' = Try(ok, AfterData(chunk.size))
           /\ fl_c' = IF ok /\ chunk.size = 0 THEN fl_c + 1 ELSE fl_c
    /\ UNCHANGED <<fl_splits, fl_i, fl_buf>>

\* sender.get_mut_data(left), which returns a slice of n bytes
FlashGetMutData(n, ok) ==
    /\ fl_pc = "data"
    /\ n = Min(n, fl_left)
    /\ fl_log' = Append(fl_log, Call("get_mut_data", fl_left, IF ok THEN n ELSE 0, ok))
    /\ fl_buf' = IF ok THEN n ELSE fl_buf
    /\ fl_pc' = Try(ok, "read")
    /\ UNCHANGED <<fl_splits, fl_i, fl_c, fl_left, fl_file>>

\* left -= f.read_exact(buf), which fills the slice from the file
FlashRead(ok) ==
    /\ fl_pc = "read"
    /\ fl_log' = Append(fl_log, Call("read_exact", fl_file, fl_buf, ok))
    /\ fl_file' = IF ok THEN fl_file + fl_buf ELSE fl_file
    /\ fl_left' = IF ok THEN fl_left - fl_buf ELSE fl_left
    /\ fl_pc' = Try(ok, AfterData(fl_left - fl_buf))
    /\ fl_c' = IF ok /\ fl_left - fl_buf = 0 THEN fl_c + 1 ELSE fl_c
    /\ UNCHANGED <<fl_splits, fl_i, fl_buf>>

\* sender.finish() once the chunks are queued
FlashFinish(ok) ==
    /\ fl_pc = "chunk"
    /\ fl_c = Len(fl_splits[fl_i + 1].chunks)
    /\ fl_log' = Append(fl_log, Call("finish", 0, 0, ok))
    /\ fl_pc' = Try(ok, "flash")
    /\ UNCHANGED <<fl_splits, fl_i, fl_c, fl_left, fl_buf, fl_file>>

\* fb.flash(target), and on to the next Split
FlashFlash(ok) ==
    /\ fl_pc = "flash"
    /\ fl_log' = Append(fl_log, Call("flash", Target, 0, ok))
    /\ fl_pc' = Try(ok, "next")
    /\ fl_i' = IF ok THEN fl_i + 1 ELSE fl_i
    /\ UNCHANGED <<fl_splits, fl_c, fl_left, fl_buf, fl_file>>

FlashNext ==
    \/ \E ok \in BOOLEAN : FlashDownload(ok) /\ UNCHANGED <<spvars, dlvars, cdvars>>
    \/ FlashReturn /\ UNCHANGED <<spvars, dlvars, cdvars>>
    \/ \E ok \in BOOLEAN : FlashFileHeader(ok) /\ UNCHANGED <<spvars, dlvars, cdvars>>
    \/ \E ok \in BOOLEAN : FlashChunkHeader(ok) /\ UNCHANGED <<spvars, dlvars, cdvars>>
    \/ \E ok \in BOOLEAN : FlashSeek(ok) /\ UNCHANGED <<spvars, dlvars, cdvars>>
    \/ \E n \in {SliceBytes, fl_left}, ok \in BOOLEAN :
          FlashGetMutData(n, ok) /\ UNCHANGED <<spvars, dlvars, cdvars>>
    \/ \E ok \in BOOLEAN : FlashRead(ok) /\ UNCHANGED <<spvars, dlvars, cdvars>>
    \/ \E ok \in BOOLEAN : FlashFinish(ok) /\ UNCHANGED <<spvars, dlvars, cdvars>>
    \/ \E ok \in BOOLEAN : FlashFlash(ok) /\ UNCHANGED <<spvars, dlvars, cdvars>>

FlashSpec == FlashInit /\ [][FlashNext]_vars

(***************************************************************************)
(* nusb.rs: the client, its OUT endpoint and the download helper.          *)
(* A call of the client or of the helper runs from one await to the next   *)
(* in one step; the completion of a transfer and the response of the       *)
(* device are the steps in between.  Every completion may carry an error   *)
(* status, and the device may answer anything.                             *)
(***************************************************************************)
\* 1024usize * 1024
BufferBytes == 1048576
\* next_buffer waits for a completion once this many transfers are pending
PipelineDepth == 3

\* max packet sizes of the OUT endpoint that are tried
OutPacketSizes == {512, 1000}
\* capacities of the Vec a command is formatted into ("download:xxxxxxxx" has 17 bytes)
CmdBufCaps == {17, 32}
\* sizes the device announces in its DATA response
DataSizes == {0, 10, 5000000}
\* lengths of the slices given to extend_from_slice
SliceLens == {5, 6, 10, 2500000}
\* the max given to get_mut_data
GetMaxes == {0, 6, 2000000}

\* commands sent on one client
MaxCmds == 2
\* INFO or TEXT responses the device sends before a terminal response
MaxInfo == 2
\* calls of extend_from_slice and get_mut_data on one download handle
MaxCalls == 3

next_multiple_of(n, m) == ((n + m - 1) \div m) * m

\* the bytes of a buffer are runs of the payload stream: the bytes from
\* position from up to position to, counted over the bytes the calls on the
\* handle took in, in call order
AppendRun(data, from, n) ==
    IF n = 0 THEN data
    ELSE IF data # <<>> /\ data[Len(data)].to = from
    THEN [data EXCEPT ![Len(data)].to = from + n]
    ELSE Append(data, [from |-> from, to |-> from + n])

Buffer(len, cap) == [len |-> len, cap |-> cap, data |-> <<>>]

\* Vec::extend_from_slice and extend_fill: n bytes more, those at position from
Fill(buf, from, n) == [buf EXCEPT !.len = @ + n, !.data = AppendRun(@, from, n)]

allocate_buffer(mo) == Buffer(0, next_multiple_of(BufferBytes, mo))

\* mutant: the handle starts with nothing left to send
DataDownload_new_NothingLeft(mo, size) == [size |-> size, left |-> 0, cur |-> allocate_buffer(mo)]

DataDownload_new(mo, size) == [size |-> size, left |-> size, cur |-> allocate_buffer(mo)]

NoDl == [size |-> 0, left |-> 0, cur |-> Buffer(0, 0)]

\* history of a download: bytes handed over by the calls that returned Ok,
\* bytes the calls took in (pos, the stream position of the next byte),
\* payload bytes and buffers submitted to the OUT endpoint, bulk-in reads
\* submitted (since the DATA response, in a download), whether
\* extend_from_slice has failed on a transfer, and whether the OUT endpoint
\* had a transfer outstanding when the command was sent
NoHist ==
    [handed |-> 0, pos |-> 0, sub_bytes |-> 0, sublog |-> <<>>, reads |-> 0,
     xfail |-> FALSE, stale |-> FALSE]

\* a call and what it returned: msg is the payload of OKAY or FAIL, map the
\* map of get_all_vars; and what the call did on the endpoints: the commands
\* it submitted, the responses it read (tag, size of DATA, payload of OKAY
\* and FAIL), whether a read of them completed with an error status
Res(o, a, k, e, ac, r) ==
    [op |-> o, arg |-> a, kind |-> k, expected |-> e, actual |-> ac, ret |-> r,
     msg |-> "", map |-> {}, sent |-> 0, resps |-> <<>>, rerr |-> FALSE]

Running(o, a) == Res(o, a, "Running", 0, 0, 0)
Returned(o, a, k) == Res(o, a, k, 0, 0, 0)
IncorrectDataLength(o, a, e, ac) == Res(o, a, "IncorrectDataLength", e, ac, 0)

\* mutant: the size is taken off left without the length check
update_size_Unchecked(d, size) ==
    [ok |-> TRUE, dl |-> [d EXCEPT !.left = @ - size], expected |-> 0, actual |-> 0]

\* mutant: the error reports the bytes of the call, not the total
update_size_ActualIsCall(d, size) ==
    IF size > d.left
    THEN [ok |-> FALSE, dl |-> d, expected |-> d.size, actual |-> size]
    ELSE [ok |-> TRUE, dl |-> [d EXCEPT !.left = @ - size], expected |-> 0, actual |-> 0]

update_size(d, size) ==
    IF size > d.left
    THEN [ok |-> FALSE, dl |-> d, expected |-> d.size, actual |-> size - d.left + d.size]
    ELSE [ok |-> TRUE, dl |-> [d EXCEPT !.left = @ - size], expected |-> 0, actual |-> 0]

\* mutant: next_buffer waits one transfer later
MustWait_OneMore(p) == Len(p) > PipelineDepth

\* self.fastboot.ep_out.pending() >= 3
MustWait(p) == Len(p) >= PipelineDepth

\* mutant: finish stops draining at the last transfer
MustDrain_LeavesOne(p) == Len(p) > 1

\* the condition of the while loop of finish
MustDrain(p) == Len(p) > 0

\* mutant: finish accepts a download that is short
LengthMismatch_Never(d) == d.left > d.size

\* the length check of finish
LengthMismatch(d) == d.left # 0

\* ep_out.submit(buffer), and the history of it
Submit(w, by) ==
    [w EXCEPT !.pending = Append(@, [kind |-> "data", len |-> w.dl.cur.len, cap |-> w.dl.cur.cap,
                                     data |-> w.dl.cur.data]),
              !.hist.sub_bytes = @ + w.dl.cur.len,
              !.hist.sublog = Append(@, [len |-> w.dl.cur.len, cap |-> w.dl.cur.cap,
                                         data |-> w.dl.cur.data, by |-> by])]

\* next_buffer up to its await: w.wait says whether it awaits a completion
next_buffer(w, by, mo) ==
    IF w.dl.cur.len # 0
    THEN LET s == Submit(w, by)
         IN  [s EXCEPT !.dl.cur = allocate_buffer(mo), !.wait = MustWait(s.pending)]
    ELSE [w EXCEPT !.wait = FALSE]

\* next_buffer after its await, for a completion without error:
\* self.current = completion.buffer; self.current.clear()
\* mutant: the buffer of the completion is used as it comes back
Recycle_NoClear(w, completion) ==
    [w EXCEPT !.dl.cur = [len |-> completion.len, cap |-> completion.cap, data |-> completion.data],
              !.wait = FALSE]
Recycle(w, completion) == [w EXCEPT !.dl.cur = Buffer(0, completion.cap), !.wait = FALSE]

\* the loop of extend_from_slice, run until it ends (w.rest = 0) or awaits a
\* completion inside next_buffer (w.wait)
RECURSIVE ExtLoop(_, _)
ExtLoop(w, mo) ==
    LET left == w.dl.cur.cap - w.dl.cur.len
    IN  IF left >= w.rest
        THEN [w EXCEPT !.dl.cur = Fill(@, w.hist.pos, w.rest), !.hist.pos = @ + w.rest,
                       !.rest = 0, !.wait = FALSE]
        ELSE LET nb == next_buffer([w EXCEPT !.dl.cur = Fill(@, w.hist.pos, left),
                                             !.hist.pos = @ + left, !.rest = @ - left],
                                   "extend", mo)
             IN  IF nb.wait THEN nb ELSE ExtLoop(nb, mo)

\* mutant: get_mut_data hands out the slice without update_size
GmdSlice_NoUpdate(w, max) ==
    LET size == Min(w.dl.cur.cap - w.dl.cur.len, max)
    IN  [w |-> [w EXCEPT !.dl.cur = Fill(@, w.hist.pos, size), !.hist.handed = @ + size,
                         !.hist.pos = @ + size],
         res |-> Res("get_mut_data", max, "Ok", 0, 0, size)]

\* get_mut_data after its next_buffer: the slice handed out
GmdSlice(w, max) ==
    LET remaining == w.dl.cur.cap - w.dl.cur.len
        size == Min(remaining, max)
        u == update_size(w.dl, size)
    IN  IF u.ok
        THEN [w |-> [w EXCEPT !.dl = [u.dl EXCEPT !.cur = Fill(@, w.hist.pos, size)],
                              !.hist.handed = @ + size, !.hist.pos = @ + size],
              res |-> Res("get_mut_data", max, "Ok", 0, 0, size)]
        ELSE [w |-> w, res |-> IncorrectDataLength("get_mut_data", max, u.expected, u.actual)]

\* mutant: a TEXT response ends the operation with success
handle_responses_TextEnds(r) ==
    CASE r.tag = "INFO" -> "continue"
      [] r.tag = "DATA" -> "FastbootUnexpectedReply"
      [] r.tag \in {"OKAY", "TEXT"} -> "Ok"
      [] r.tag = "FAIL" -> "FastbootFailed"
      [] r.tag = "BAD" -> "FastbootParseError"

\* what handle_responses does with what read_response returns; "BAD" is a
\* buffer that FastBootResponse::from_bytes rejects (self.read_response().await?)
handle_responses(r) ==
    CASE r.tag \in {"INFO", "TEXT"} -> "continue"
      [] r.tag = "DATA" -> "FastbootUnexpectedReply"
      [] r.tag = "OKAY" -> "Ok"
      [] r.tag = "FAIL" -> "FastbootFailed"
      [] r.tag = "BAD" -> "FastbootParseError"

\* what the loop of download does with what read_response returns
download_response(r) ==
    CASE r.tag \in {"INFO", "TEXT"} -> "continue"
      [] r.tag = "DATA" -> "handle"
      [] r.tag = "OKAY" -> "FastbootUnexpectedReply"
      [] r.tag = "FAIL" -> "FastbootFailed"
      [] r.tag = "BAD" -> "FastbootParseError"

\* mutant: get_all_vars returns at the first INFO
get_all_vars_response_InfoEnds(r) ==
    CASE r.tag = "TEXT" -> "continue"
      [] r.tag = "DATA" -> "FastbootUnexpectedReply"
      [] r.tag \in {"OKAY", "INFO"} -> "Ok"
      [] r.tag = "FAIL" -> "FastbootFailed"
      [] r.tag = "BAD" -> "FastbootParseError"

\* what the loop of get_all_vars does with what read_response returns
get_all_vars_response(r) ==
    CASE r.tag \in {"INFO", "TEXT"} -> "continue"
      [] r.tag = "DATA" -> "FastbootUnexpectedReply"
      [] r.tag = "OKAY" -> "Ok"
      [] r.tag = "FAIL" -> "FastbootFailed"
      [] r.tag = "BAD" -> "FastbootParseError"

\* strings are sequences of characters
RECURSIVE LastIndexOf(_, _)
LastIndexOf(str, c) ==
    IF str = <<>> THEN 0
    ELSE IF str[Len(str)] = c THEN Len(str)
    ELSE LastIndexOf(SubSeq(str, 1, Len(str) - 1), c)

\* str::rsplit_once
rsplit_once(str, c) ==
    LET i == LastIndexOf(str, c)
    IN  IF i = 0
        THEN [some |-> FALSE, key |-> <<>>, value |-> <<>>]
        ELSE [some |-> TRUE, key |-> SubSeq(str, 1, i - 1), value |-> SubSeq(str, i + 1, Len(str))]

RECURSIVE trim_start(_)
trim_start(str) ==
    IF str # <<>> /\ Head(str) = " " THEN trim_start(Tail(str)) ELSE str

RECURSIVE trim_end(_)
trim_end(str) ==
    IF str # <<>> /\ str[Len(str)] = " " THEN trim_end(SubSeq(str, 1, Len(str) - 1)) ELSE str

\* str::trim
trim(str) == trim_end(trim_start(str))

\* mutant: a key that is in the map keeps its value
insert_KeepFirst(m, k, v) ==
    IF \E e \in m : e[1] = k THEN m ELSE m \cup { <<k, v>> }

\* HashMap::insert on a map held as a set of <<key, value>>
insert(m, k, v) == { e \in m : e[1] # k } \cup { <<k, v>> }

\* the Info arm of get_all_vars
InsertVar(m, line) ==
    LET kv == rsplit_once(line, ":")
    IN  IF kv.some THEN insert(m, trim(kv.key), trim(kv.value)) ELSE m

\* the operations that go through execute
ExecOps == {"get_var", "flash", "erase", "reboot", "reboot_bootloader", "continue_boot"}

\* the INFO lines the device sends
InfoLines ==
    { <<"a", ":", "1">>,
      <<"a", ":", " ", "2", " ">>,
      <<" ", "b", " ", ":", "1">>,
      <<"a", ":", "b", ":", "1">>,
      <<"a", "b">> }

\* the payloads of OKAY and FAIL
Msgs == {"", "x"}

Resp(t, n, m, l) == [tag |-> t, n |-> n, msg |-> m, line |-> l]

Responses ==
    { Resp("INFO", 0, "", l) : l \in InfoLines }
      \cup { Resp("TEXT", 0, "", <<>>), Resp("BAD", 0, "", <<>>) }
      \cup { Resp(t, 0, m, <<>>) : t \in {"OKAY", "FAIL"}, m \in Msgs }
      \cup { Resp("DATA", k, "", <<>>) : k \in DataSizes }

Statuses == {"ok", "err"}

\* the state the helper's operators work on
Work == [dl |-> dl, pending |-> pending, hist |-> hist, rest |-> rest, wait |-> FALSE]

\* the state after a step of the helper
Becomes(w, newpc, res) ==
    /\ dl' = w.dl
    /\ pending' = w.pending
    /\ hist' = w.hist
    /\ rest' = w.rest
    /\ pc' = newpc
    /\ result' = res

DlInit ==
    /\ max_out \in OutPacketSizes
    /\ pc = "idle"
    /\ op = "none"
    /\ pending = <<>>
    /\ dl = NoDl
    /\ rest = 0
    /\ result = Returned("none", 0, "none")
    /\ hist = NoHist
    /\ ncmds = 0
    /\ ninfo = 0
    /\ ncalls = 0

\* send_command / send_data up to the await: the command is submitted.
\* o is "download", "get_all_vars" or one of the operations of execute
SendCommand(o, c) ==
    /\ pc = "idle"
    /\ ncmds < MaxCmds
    /\ pending' = Append(pending, [kind |-> "cmd", len |-> c, cap |-> c, data |-> <<>>])
    /\ pc' = "cmd_wait"
    /\ op' = o
    /\ result' = [Running(o, 0) EXCEPT !.sent = 1]
    /\ dl' = NoDl
    /\ hist' = [NoHist EXCEPT !.stale = (pending # <<>>)]
    /\ rest' = 0
    /\ ncmds' = ncmds + 1
    /\ ninfo' = 0
    /\ ncalls' = 0
    /\ UNCHANGED max_out

\* send_data after the await: the oldest pending transfer has completed
CmdComplete(s) ==
    /\ pc = "cmd_wait"
    /\ pending' = Tail(pending)
    /\ IF s = "ok"
       THEN /\ pc' = "resp_wait"
            /\ hist' = [hist EXCEPT !.reads = @ + 1]
            /\ UNCHANGED <<op, result>>
       ELSE /\ pc' = "idle"
            /\ op' = "none"
            /\ result' = [result EXCEPT !.kind = "Transfer"]
            /\ UNCHANGED hist
    /\ UNCHANGED <<max_out, dl, rest, ncmds, ninfo, ncalls>>

\* what the operation returns on the response that ends it: the payload of
\* OKAY for get_var, the map for get_all_vars, the message of FAIL
Terminal(res, out, r) ==
    [res EXCEPT
        !.kind = out,
        !.msg = IF out = "FastbootFailed" \/ (out = "Ok" /\ res.op = "get_var") THEN r.msg ELSE "",
        !.map = IF out = "Ok" /\ res.op = "get_all_vars" THEN @ ELSE {}]

\* read_response has its completion, with status s, which it does not look
\* at, and a buffer that parses to r: the loop of execute / handle_responses
\* (also the one at the end of finish), of download or of get_all_vars takes it
\* result.resps logs the responses read, with the line of an INFO only where
\* the operation looks at it (get_all_vars)
ReadResponse(r, s) ==
    /\ pc = "resp_wait"
    /\ LET out == IF op = "download" THEN download_response(r)
                  ELSE IF op = "get_all_vars" THEN get_all_vars_response(r)
                  ELSE handle_responses(r)
           res == [result EXCEPT !.resps = Append(@, [r EXCEPT !.line = IF op = "get_all_vars" THEN @ ELSE <<>>]),
                                 !.rerr = @ \/ (s = "err")]
       IN  IF out = "continue"
           THEN /\ ninfo < MaxInfo
                /\ ninfo' = ninfo + 1
                /\ hist' = [hist EXCEPT !.reads = @ + 1]
                /\ result' = [res EXCEPT !.map = IF op = "get_all_vars" /\ r.tag = "INFO"
                                                 THEN InsertVar(@, r.line) ELSE @]
                /\ UNCHANGED <<pc, op, dl>>
           ELSE IF out = "handle"
           THEN /\ pc' = "handle"
                /\ op' = "none"
                /\ dl' = DataDownload_new(max_out, r.n)
                /\ hist' = [NoHist EXCEPT !.stale = hist.stale]
                /\ result' = [res EXCEPT !.kind = "Ok", !.ret = r.n]
                /\ UNCHANGED ninfo
           ELSE /\ pc' = "idle"
                /\ op' = "none"
                /\ result' = Terminal(res, out, r)
                /\ UNCHANGED <<dl, hist, ninfo>>
    /\ UNCHANGED <<max_out, pending, rest, ncmds, ncalls>>

\* extend_from_slice(data) with data.len() = n, up to its first await
ExtendFromSlice(n) ==
    /\ pc = "handle"
    /\ ncalls < MaxCalls
    /\ ncalls' = ncalls + 1
    /\ LET u == update_size(dl, n)
       IN  IF ~u.ok
           THEN Becomes(Work, "handle", IncorrectDataLength("extend_from_slice", n, u.expected, u.actual))
           ELSE LET w == ExtLoop([Work EXCEPT !.dl = u.dl, !.rest = n], max_out)
                IN  IF w.wait
                    THEN Becomes(w, "ext_wait", Running("extend_from_slice", n))
                    ELSE Becomes([w EXCEPT !.hist.handed = @ + n], "handle",
                                 Returned("extend_from_slice", n, "Ok"))
    /\ UNCHANGED <<max_out, op, ncmds, ninfo>>

\* extend_from_slice: the completion awaited in next_buffer arrives
ExtComplete(s) ==
    /\ pc = "ext_wait"
    /\ LET done == [Work EXCEPT !.pending = Tail(pending)]
       IN  IF s = "err"
           THEN Becomes([done EXCEPT !.rest = 0, !.hist.pos = @ + rest, !.hist.xfail = TRUE],
                        "handle",
                        Returned("extend_from_slice", result.arg, "Transfer"))
           ELSE LET w == ExtLoop(Recycle(done, Head(pending)), max_out)
                IN  IF w.wait
                    THEN Becomes(w, "ext_wait", result)
                    ELSE Becomes([w EXCEPT !.hist.handed = @ + result.arg], "handle",
                                 Returned("extend_from_slice", result.arg, "Ok"))
    /\ UNCHANGED <<max_out, op, ncmds, ninfo, ncalls>>

\* get_mut_data(max), up to its await if it has one
GetMutData(max) ==
    /\ pc = "handle"
    /\ ncalls < MaxCalls
    /\ ncalls' = ncalls + 1
    /\ IF dl.cur.cap = dl.cur.len
       THEN LET nb == next_buffer(Work, "get_mut_data", max_out)
            IN  IF nb.wait
                THEN Becomes(nb, "gmd_wait", Running("get_mut_data", max))
                ELSE Becomes(GmdSlice(nb, max).w, "handle", GmdSlice(nb, max).res)
       ELSE Becomes(GmdSlice(Work, max).w, "handle", GmdSlice(Work, max).res)
    /\ UNCHANGED <<max_out, op, ncmds, ninfo>>

\* get_mut_data: the completion awaited in next_buffer arrives
GmdComplete(s) ==
    /\ pc = "gmd_wait"
    /\ LET done == [Work EXCEPT !.pending = Tail(pending)]
       IN  IF s = "err"
           THEN Becomes(done, "handle", Returned("get_mut_data", result.arg, "Transfer"))
           ELSE LET g == GmdSlice(Recycle(done, Head(pending)), result.arg)
                IN  Becomes(g.w, "handle", g.res)
    /\ UNCHANGED <<max_out, op, ncmds, ninfo, ncalls>>

\* where finish goes once the current buffer is submitted: to the next
\* completion, or to handle_responses
FinishWaits(w) ==
    IF MustDrain(w.pending)
    THEN /\ Becomes(w, "fin_drain", Running("finish", 0))
         /\ op' = "finish"
    ELSE /\ Becomes([w EXCEPT !.hist.reads = @ + 1], "resp_wait", Running("finish", 0))
         /\ op' = "finish"

\* finish, up to its first await; the handle is consumed
Finish ==
    /\ pc = "handle"
    /\ IF LengthMismatch(dl)
       THEN /\ Becomes(Work, "idle",
                       IncorrectDataLength("finish", 0, dl.size, dl.size - dl.left))
            /\ op' = "none"
       ELSE IF dl.cur.len # 0
            THEN FinishWaits([Submit(Work, "finish") EXCEPT !.dl.cur = Buffer(0, 0)])
            ELSE FinishWaits(Work)
    /\ ninfo' = 0
    /\ UNCHANGED <<max_out, ncmds, ncalls>>

\* finish: a completion awaited in its while loop arrives
FinComplete(s) ==
    /\ pc = "fin_drain"
    /\ LET done == [Work EXCEPT !.pending = Tail(pending)]
       IN  IF s = "err"
           THEN /\ Becomes(done, "idle", Returned("finish", 0, "Transfer"))
                /\ op' = "none"
           ELSE FinishWaits(done)
    /\ UNCHANGED <<max_out, ncmds, ninfo, ncalls>>

\* the handle is dropped without finish
DropHandle ==
    /\ pc = "handle"
    /\ pc' = "idle"
    /\ result' = Returned("drop", 0, "Ok")
    /\ UNCHANGED <<max_out, op, pending, dl, rest, hist, ncmds, ninfo, ncalls>>

Init == DlInit /\ SplitIdle /\ CodecIdle /\ FlashIdle

Next ==
    \/ \E o \in ExecOps \cup {"download", "get_all_vars"}, c \in CmdBufCaps :
          SendCommand(o, c) /\ UNCHANGED <<spvars, cdvars, flvars>>
    \/ \E s \in Statuses : CmdComplete(s) /\ UNCHANGED <<spvars, cdvars, flvars>>
    \/ \E r \in Responses, s \in Statuses : ReadResponse(r, s) /\ UNCHANGED <<spvars, cdvars, flvars>>
    \/ \E n \in SliceLens : ExtendFromSlice(n) /\ UNCHANGED <<spvars, cdvars, flvars>>
    \/ \E s \in Statuses : ExtComplete(s) /\ UNCHANGED <<spvars, cdvars, flvars>>
    \/ \E m \in GetMaxes : GetMutData(m) /\ UNCHANGED <<spvars, cdvars, flvars>>
    \/ \E s \in Statuses : GmdComplete(s) /\ UNCHANGED <<spvars, cdvars, flvars>>
    \/ Finish /\ UNCHANGED <<spvars, cdvars, flvars>>
    \/ \E s \in Statuses : FinComplete(s) /\ UNCHANGED <<spvars, cdvars, flvars>>
    \/ DropHandle /\ UNCHANGED <<spvars, cdvars, flvars>>

Spec == Init /\ [][Next]_vars

\* every transfer submitted on the OUT endpoint completes, and the device
\* answers every read: the completion finish awaits arrives, and so does the
\* response read_response awaits (at most MaxInfo of them are INFO or TEXT)
FinishLive ==
    /\ Init
    /\ [][Next]_vars
    /\ WF_vars(\E s \in Statuses : FinComplete(s) /\ UNCHANGED <<spvars, cdvars, flvars>>)
    /\ WF_vars(\E r \in Responses, s \in Statuses :
                  ReadResponse(r, s) /\ UNCHANGED <<spvars, cdvars, flvars>>)


(***************************************************************************)
(* Properties of the split planner                                         *)
(***************************************************************************)
SplitDone == sp_pc = "done"
ImageDone == sp_pc = "done" /\ sp_mode = "image"

\* a synthetic DontCare prefix: made by SplitBuilder::new, it reads nothing
Synthetic(c) == c.header.chunk_type = "DontCare" /\ c.offset = 0 /\ c.size = 0

BeginsWithSynthetic(split) == Len(split.chunks) > 0 /\ Synthetic(split.chunks[1])

\* every Raw chunk of the input has total_size = 12 + chunk_size * block_size
WellFormedRaw ==
    \A i \in 1..Len(sp_chunks) :
        sp_chunks[i].chunk_type = "Raw"
            => sp_chunks[i].total_size = CHUNK_HEADER_BYTES_LEN + sp_chunks[i].chunk_size * sp_bs

\* no chunk header of the input has a total_size below the header's length
NoShortChunk ==
    \A i \in 1..Len(sp_chunks) : sp_chunks[i].total_size >= CHUNK_HEADER_BYTES_LEN

\* a Crc32 chunk covers no block of the output
CrcCoversNothing ==
    \A i \in 1..Len(sp_chunks) :
        sp_chunks[i].chunk_type = "Crc32" => sp_chunks[i].chunk_size = 0

PayloadStart(i) ==
    FILE_HEADER_BYTES_LEN + CHUNK_HEADER_BYTES_LEN * i
      + SumSeq([j \in 1..(i - 1) |-> data_size(sp_chunks[j])])

\* the block writes of expanding a chunk list from block pos on, as expand() of
\* asparseimg does: Raw and Fill write chunk_size blocks, DontCare seeks over
\* them, Crc32 is ignored. A write is (block, kind, source offset of its data);
\* the blocks a DontCare of the image covers are listed too, a synthetic prefix
\* lists nothing.
RECURSIVE Writes(_, _, _)
Writes(cs, pos, bs) ==
    IF cs = <<>> THEN <<>>
    ELSE LET c == Head(cs)
             n == c.header.chunk_size
             t == c.header.chunk_type
             here == CASE t = "Raw" ->
                            [j \in 1..n |-> [block |-> pos + j - 1, kind |-> "Raw",
                                             src |-> c.offset + (j - 1) * bs]]
                       [] t = "Fill" ->
                            [j \in 1..n |-> [block |-> pos + j - 1, kind |-> "Fill",
                                             src |-> c.offset]]
                       [] t = "DontCare" /\ ~Synthetic(c) ->
                            [j \in 1..n |-> [block |-> pos + j - 1, kind |-> "DontCare",
                                             src |-> 0]]
                       [] OTHER -> <<>>
             after == IF t = "Crc32" THEN pos ELSE pos + n
         IN  here \o Writes(Tail(cs), after, bs)

\* the chunks of the original image with the offsets of their payloads
ImageChunks ==
    [i \in 1..Len(sp_chunks) |-> SplitChunk(sp_chunks[i], PayloadStart(i), data_size(sp_chunks[i]))]

ImageWrites == Writes(ImageChunks, 0, sp_bs)

\* every Split is expanded from block 0 on, one after the other
SplitsWrites == Flatten([k \in 1..Len(sp_out) |-> Writes(sp_out[k].chunks, 0, sp_bs)])

\* the target after a sequence of writes: block -> (kind, source) of the last
\* write to it; DontCare leaves the target as it is
Expand(target, ws) ==
    LET written == { i \in 1..Len(ws) : ws[i].kind # "DontCare" }
        last(b) == CHOOSE i \in written :
                       /\ ws[i].block = b
                       /\ \A j \in written : ws[j].block = b => j <= i
    IN  [b \in { ws[i].block : i \in written } |-> <<ws[last(b)].kind, ws[last(b)].src>>] @@ target

EmptyTarget == [b \in {} |-> <<>>]

SameExpansion ==
    /\ SplitsWrites = ImageWrites
    /\ Expand(EmptyTarget, SplitsWrites) = Expand(EmptyTarget, ImageWrites)

\* C2 (as stated): for an image with well-formed Raw chunks on which split_image
\* succeeds, the Splits write every block of the image exactly once, at its block
\* position and from its source bytes, so that expanding the Splits in order
\* gives the expansion of the image
C2_Original == (ImageDone /\ WellFormedRaw) => SameExpansion

\* C2 (amended): the same, for images whose Crc32 chunks have chunk_size 0
\* and whose chunks have a total_size of 12 or more
C2_SplitsExpandToImage ==
    (ImageDone /\ WellFormedRaw /\ NoShortChunk /\ CrcCoversNothing) => SameExpansion

\* a well-formed image with Raw, Fill or DontCare blocks cut into several Splits,
\* one Raw chunk of it cut in parts
C2_Witness ==
    /\ ImageDone /\ WellFormedRaw /\ NoShortChunk /\ CrcCoversNothing
    /\ Len(sp_out) >= 3
    /\ Len(ImageWrites) >= 4
    /\ \E k \in 1..Len(sp_out) : \E i \in 1..Len(sp_out[k].chunks) :
          /\ sp_out[k].chunks[i].header.chunk_type = "Raw"
          /\ \A j \in 1..Len(sp_chunks) : sp_chunks[j] # sp_out[k].chunks[i].header

\* (source_offset, payload_bytes) of the non-synthetic chunks of a chunk list
RECURSIVE Ranges(_)
Ranges(cs) ==
    IF cs = <<>> THEN <<>>
    ELSE (IF Synthetic(Head(cs)) THEN <<>>
          ELSE <<[offset |-> Head(cs).offset, size |-> Head(cs).size]>>) \o Ranges(Tail(cs))

SplitRanges == Flatten([k \in 1..Len(sp_out) |-> Ranges(sp_out[k].chunks)])

InputRanges == [i \in 1..Len(sp_chunks) |-> [offset |-> PayloadStart(i), size |-> data_size(sp_chunks[i])]]

\* byte x lies in one of the ranges
Holds(rs, x) == \E i \in 1..Len(rs) : rs[i].offset <= x /\ x < rs[i].offset + rs[i].size

\* the first byte of every range and the byte after its last
Ends(rs) == { rs[i].offset : i \in 1..Len(rs) } \cup { rs[i].offset + rs[i].size : i \in 1..Len(rs) }

\* two lists of ranges hold the same bytes: between two neighbouring ends
\* every byte is in the ranges that hold the first of them
SameBytes(rs, qs) == \A x \in Ends(rs) \cup Ends(qs) : Holds(rs, x) <=> Holds(qs, x)

Overlap(r, q) == r.offset < q.offset + q.size /\ q.offset < r.offset + r.size

SizeOf(rs) == SumSeq([i \in 1..Len(rs) |-> rs[i].size])

PairwiseDisjoint(rs) ==
    \A a, b \in 1..Len(rs) :
        (a # b /\ rs[a].size > 0 /\ rs[b].size > 0) => ~Overlap(rs[a], rs[b])

ExactCover ==
    /\ PairwiseDisjoint(SplitRanges)
    /\ SameBytes(SplitRanges, InputRanges)
    /\ SizeOf(SplitRanges) = SizeOf(InputRanges)

\* C3 (as stated): for any header, chunks and budget >= 28 + 24 + block_size the
\* source ranges of the non-synthetic chunks of the Splits are pairwise disjoint
\* and cover exactly the payload bytes of the input chunks
C3_Original == ImageDone => ExactCover

\* C3 (amended): the same, for inputs whose Raw chunks have
\* total_size = 12 + chunk_size * block_size and whose other chunks have a
\* total_size of 12 or more
C3_RangesCoverPayload == (ImageDone /\ WellFormedRaw /\ NoShortChunk) => ExactCover

\* several Splits whose ranges cover the payload of a Raw chunk cut in parts
C3_Witness ==
    /\ ImageDone /\ WellFormedRaw /\ NoShortChunk
    /\ Len(sp_out) >= 2
    /\ Len(SplitRanges) > Len(InputRanges)
    /\ SizeOf(InputRanges) > 2 * sp_bs

\* chunk_size summed over the chunks of a Split that come from the image
LogicalBlocks(split) ==
    SumSeq([i \in 1..Len(split.chunks) |->
              IF i = 1 /\ Synthetic(split.chunks[1]) THEN 0
              ELSE split.chunks[i].header.chunk_size])

\* the logical blocks emitted by the Splits before Split k
EmittedBefore(k) == SumSeq([j \in 1..(k - 1) |-> LogicalBlocks(sp_out[j])])

\* C4 (as stated): every Split but the first begins with a synthetic DontCare of
\* the blocks emitted by the earlier Splits, the first Split does not
C4_Original ==
    ImageDone =>
        /\ ~BeginsWithSynthetic(sp_out[1])
        /\ \A k \in 2..Len(sp_out) :
              /\ BeginsWithSynthetic(sp_out[k])
              /\ sp_out[k].chunks[1].header.chunk_size = EmittedBefore(k)

\* C4 (amended): a Split opened after n > 0 logical blocks begins with a
\* synthetic DontCare of n blocks; a Split opened when no block has been emitted
\* (the first one, and any Split after chunks of chunk_size 0 only) has no prefix
C4_PrefixIsBlocksEmitted ==
    ImageDone =>
        \A k \in 1..Len(sp_out) :
            IF EmittedBefore(k) > 0
            THEN /\ BeginsWithSynthetic(sp_out[k])
                 /\ sp_out[k].chunks[1].header.chunk_size = EmittedBefore(k)
            ELSE ~BeginsWithSynthetic(sp_out[k])

\* three Splits, the later two with prefixes of different sizes
C4_Witness ==
    /\ ImageDone
    /\ Len(sp_out) >= 3
    /\ BeginsWithSynthetic(sp_out[2]) /\ BeginsWithSynthetic(sp_out[3])
    /\ sp_out[2].chunks[1].header.chunk_size < sp_out[3].chunks[1].header.chunk_size


(***************************************************************************)
(* Properties of the download helper                                       *)
(***************************************************************************)
\* a DataDownload exists: between the DATA response and the end of finish
HandleLive == pc \in {"handle", "ext_wait", "gmd_wait"}
InFinish == pc = "fin_drain" \/ (pc = "resp_wait" /\ op = "finish")
Finished(k) == pc = "idle" /\ result.op = "finish" /\ result.kind = k

\* payload bytes submitted on the OUT endpoint plus bytes held in the current buffer
Queued == hist.sub_bytes + dl.cur.len

FullLen == next_multiple_of(BufferBytes, max_out)

\* C6 as stated: every buffer submitted before finish is full, and its length
\* is round_up(1 MiB, max packet size), a multiple of the max packet size
C6_Original ==
    \A i \in DOMAIN hist.sublog :
        hist.sublog[i].by # "finish" =>
            /\ hist.sublog[i].len = hist.sublog[i].cap
            /\ hist.sublog[i].len = FullLen
            /\ hist.sublog[i].len % max_out = 0

\* C6 for a download whose command was sent while the OUT endpoint had
\* nothing outstanding: every buffer submitted before finish is full and has
\* length round_up(1 MiB, max packet size)
C6_AlignedWhenNothingStale ==
    ~hist.stale =>
        \A i \in DOMAIN hist.sublog :
            hist.sublog[i].by # "finish" =>
                (hist.sublog[i].len = hist.sublog[i].cap /\ hist.sublog[i].len = FullLen)

\* a buffer recycled from a completion was submitted mid-stream
C6_Witness ==
    /\ ~hist.stale
    /\ ncmds = MaxCmds
    /\ HandleLive
    /\ Len(hist.sublog) > PipelineDepth
    /\ hist.sublog[Len(hist.sublog)].by = "extend"

C10_Original ==
    pc = "resp_wait" => \A i \in DOMAIN pending : pending[i].kind # "data"

\* C10 for a handle that is finished: no read is submitted while the handle
\* lives; finish reads only when the current buffer is submitted and the OUT
\* endpoint has nothing outstanding, and fails on a completion with an error
\* status without having read
C10_FinishDrainsFirst ==
    /\ (HandleLive \/ pc = "fin_drain") => hist.reads = 0
    /\ (pc = "resp_wait" /\ op = "finish") => (pending = <<>> /\ dl.cur.len = 0 /\ hist.reads > 0)
    /\ Finished("Transfer") => hist.reads = 0
    /\ (Finished("Ok") \/ Finished("FastbootFailed")) => (pending = <<>> /\ hist.reads > 0)

\* finish has drained several transfers and got OKAY
C10_Witness ==
    /\ Finished("Ok")
    /\ Len(hist.sublog) >= PipelineDepth
    /\ hist.sublog[Len(hist.sublog)].by = "finish"
    /\ hist.reads > 0


(***************************************************************************)
(* Properties of the client                                                *)
(***************************************************************************)
Last(q) == q[Len(q)]
Front(q) == SubSeq(q, 1, Len(q) - 1)
AllInfoOrText(q) == \A i \in DOMAIN q : q[i].tag \in {"INFO", "TEXT"}

\* the operation o is between its call and its return
RunningOp(o) == pc \in {"cmd_wait", "resp_wait"} /\ op = o
\* the operation o has returned and nothing was called since
ReturnedOp(o) == pc = "idle" /\ result.op = o

\* the result that belongs to the response that ended handle_responses
ResultOfExecute(o, r) ==
    CASE r.tag = "OKAY" -> result.kind = "Ok" /\ result.msg = (IF o = "get_var" THEN r.msg ELSE "")
      [] r.tag = "FAIL" -> result.kind = "FastbootFailed" /\ result.msg = r.msg
      [] r.tag = "DATA" -> result.kind = "FastbootUnexpectedReply"
      [] r.tag = "BAD" -> result.kind = "FastbootParseError"
      [] OTHER -> FALSE

\* C11: get_var, flash, erase, reboot, reboot_bootloader and continue_boot
\* send the command once and read responses one at a time; INFO and TEXT are
\* passed over, OKAY ends with success (get_var returns the payload), FAIL
\* with FastbootFailed and the message, DATA with FastbootUnexpectedReply,
\* and no read is submitted after the response that ended the operation
C11_ExecuteReadsToTerminal ==
    \A o \in ExecOps :
        /\ (RunningOp(o) \/ ReturnedOp(o)) => result.sent = 1
        /\ (pc = "cmd_wait" /\ op = o) => (hist.reads = 0 /\ result.resps = <<>>)
        /\ (pc = "resp_wait" /\ op = o) =>
              (AllInfoOrText(result.resps) /\ hist.reads = Len(result.resps) + 1)
        /\ (ReturnedOp(o) /\ result.kind = "Transfer") => (hist.reads = 0 /\ result.resps = <<>>)
        /\ (ReturnedOp(o) /\ result.kind # "Transfer") =>
              /\ result.resps # <<>>
              /\ AllInfoOrText(Front(result.resps))
              /\ ResultOfExecute(o, Last(result.resps))
              /\ hist.reads = Len(result.resps)

\* get_var got its value after the device had sent INFO and TEXT
C11_Witness ==
    /\ ReturnedOp("get_var")
    /\ result.kind = "Ok"
    /\ result.msg = "x"
    /\ Len(result.resps) = MaxInfo + 1
    /\ result.resps[1].tag = "INFO"
    /\ result.resps[2].tag = "TEXT"

\* C12: download sends its command once, passes over INFO and TEXT, and on
\* the first DATA(n) returns a handle with size = left = n and an empty
\* buffer; OKAY gives FastbootUnexpectedReply, FAIL gives FastbootFailed, and
\* then no handle exists
C12_DownloadReturnsHandleOnData ==
    /\ (RunningOp("download") \/ result.op = "download") => result.sent = 1
    /\ (pc = "resp_wait" /\ op = "download") => AllInfoOrText(result.resps)
    /\ (pc = "handle" /\ result.op = "download") =>
          /\ result.kind = "Ok"
          /\ result.resps # <<>>
          /\ AllInfoOrText(Front(result.resps))
          /\ Last(result.resps).tag = "DATA"
          /\ dl.size = Last(result.resps).n
          /\ dl.left = Last(result.resps).n
          /\ dl.cur.len = 0
          /\ pending = <<>> \/ hist.stale
    /\ (ReturnedOp("download") /\ result.kind # "Transfer") =>
          /\ result.resps # <<>>
          /\ AllInfoOrText(Front(result.resps))
          /\ Last(result.resps).tag \in {"OKAY", "FAIL", "BAD"}
          /\ Last(result.resps).tag = "OKAY" => result.kind = "FastbootUnexpectedReply"
          /\ Last(result.resps).tag = "FAIL" =>
                (result.kind = "FastbootFailed" /\ result.msg = Last(result.resps).msg)
          /\ dl = NoDl
    /\ (ReturnedOp("download") /\ result.kind = "Transfer") => dl = NoDl

\* the device sent INFO, TEXT and DATA(10)
C12_Witness ==
    /\ pc = "handle"
    /\ result.op = "download"
    /\ Len(result.resps) = MaxInfo + 1
    /\ dl.size = 10
    /\ dl.left = 10


\* the call that returned last has read OKAY or FAIL
TerminalRead == result.resps # <<>> /\ Last(result.resps).tag \in {"OKAY", "FAIL"}

BelowMinimum ==
    IF sp_bs < 0 THEN TRUE ELSE sp_size < FILE_HEADER_BYTES_LEN + 2 * CHUNK_HEADER_BYTES_LEN + sp_bs

\* the call returned Err(TooSmall) from the check, nothing having been built
TooSmallAtCheck == sp_pc = "err" /\ sp_idx = 0 /\ sp_acc = NoAcc /\ sp_out = <<>>

\* C14 as stated: with a budget below 28 + 2 x 12 + block_size, split_image
\* and split_raw fail with TooSmall before any Split is built, whatever the
\* chunks or the raw size
C14_Original ==
    (sp_pc # "start" /\ BelowMinimum) => TooSmallAtCheck

\* C14 for block sizes up to 2^32 - 53, where the sum of the check fits in a u32
C14_TooSmallBelowMinimum ==
    (sp_pc # "start" /\ BelowMinimum /\ ~MinimalSizeOverflows(sp_bs)) => TooSmallAtCheck

\* a budget one byte short, for an image with chunks
C14_Witness ==
    /\ TooSmallAtCheck
    /\ sp_mode = "image"
    /\ sp_bs > 0
    /\ sp_size = MinBudget(sp_bs) - 1
    /\ Len(sp_chunks) = MaxChunks


RawDone == sp_pc = "done" /\ sp_mode = "raw"

\* the blocks of the Raw chunks of the Splits before the i-th
RECURSIVE RawBlocksBefore(_)
RawBlocksBefore(i) ==
    IF i <= 1 THEN 0
    ELSE RawBlocksBefore(i - 1)
           + SumSeq([j \in 1..Len(sp_out[i - 1].chunks) |->
                        IF sp_out[i - 1].chunks[j].header.chunk_type = "Raw"
                        THEN sp_out[i - 1].chunks[j].header.chunk_size ELSE 0])

\* the byte offset off, a u32 turned usize, is k blocks
OffsetIsBlocks(off, k) ==
    /\ off % DEFAULT_BLOCKSIZE = 0
    /\ k = IF off >= 0 THEN off \div DEFAULT_BLOCKSIZE
           ELSE off \div DEFAULT_BLOCKSIZE + U32Blocks

\* c is a Raw chunk that reads its blocks from block k of the raw image
RawChunkAt(c, k) ==
    /\ c.header.chunk_type = "Raw"
    /\ c.header.total_size = CHUNK_HEADER_BYTES_LEN + c.header.chunk_size * DEFAULT_BLOCKSIZE
    /\ OffsetIsBlocks(c.offset, k)
    /\ c.size = c.header.chunk_size * DEFAULT_BLOCKSIZE

\* one Raw chunk, after a DontCare(k) exactly when k > 0
RawSplitAt(split, k) ==
    IF k = 0
    THEN Len(split.chunks) = 1 /\ RawChunkAt(split.chunks[1], 0)
    ELSE /\ Len(split.chunks) = 2
         /\ split.chunks[1] = SplitChunk(new_dontcare(k), 0, 0)
         /\ RawChunkAt(split.chunks[2], k)

RawSplitsAsClaimed ==
    /\ sp_pc \notin {"err", "panic"}
    /\ RawDone =>
          /\ \A i \in DOMAIN sp_out : RawSplitAt(sp_out[i], RawBlocksBefore(i))
          /\ RawBlocksBefore(Len(sp_out) + 1) = raw_blocks_of(sp_raw)

\* C15 as stated: for every raw size and every budget that passes the check,
\* split_raw returns Splits of one Raw chunk each, after a DontCare(k) exactly
\* when k > 0 blocks are covered by earlier Splits, with source offset
\* k x 4096 and payload size chunk_size x 4096, the Raw chunk_sizes summing
\* to ceil(R / 4096)
C15_Original ==
    (sp_mode = "raw" /\ sp_pc # "start" /\ ~BelowMinimum) => RawSplitsAsClaimed

\* C15 for raw sizes up to 4 GiB
C15_RawSplitsUpTo4GiB ==
    (sp_mode = "raw" /\ sp_pc # "start" /\ ~BelowMinimum /\ raw_blocks_of(sp_raw) <= U32Blocks) =>
        RawSplitsAsClaimed

\* a raw image whose last block is not full, cut into three Splits or more
C15_Witness ==
    /\ RawDone
    /\ sp_raw.rest > 0
    /\ Len(sp_out) >= 3
    /\ Len(sp_out[1].chunks) = 1
    /\ Len(sp_out[3].chunks) = 2

\* the Raw chunks of the i-th Split read the raw image from the block that
\* follows the blocks of the Splits before it
RawOffsetExact(i) ==
    \A j \in DOMAIN sp_out[i].chunks :
        sp_out[i].chunks[j].header.chunk_type = "Raw" =>
            OffsetIsBlocks(sp_out[i].chunks[j].offset, RawBlocksBefore(i))

\* C36 as stated: in split_raw the source offset of the Raw chunk of each
\* Split is (blocks covered by earlier Splits) x 4096 exactly, without
\* wrap-around at 2^32 and without abort, also for raw images of 4 GiB or
\* more
C36_Original ==
    sp_mode = "raw" =>
        /\ sp_pc # "panic"
        /\ RawDone => \A i \in DOMAIN sp_out : RawOffsetExact(i)

\* C36 for the Splits that start before block 2^20, where the product fits
\* in 32 bits
C36_OffsetExactBelow4GiB ==
    RawDone =>
        \A i \in DOMAIN sp_out :
            RawBlocksBefore(i) < U32Blocks => RawOffsetExact(i)

\* split_raw has returned the Splits of a raw image of more than 4 GiB, the
\* last of which starts at block 2^20 or later
C36_Witness ==
    /\ RawDone
    /\ raw_blocks_of(sp_raw) > U32Blocks
    /\ Len(sp_out) >= 2
    /\ RawBlocksBefore(Len(sp_out)) >= U32Blocks

\* split_raw has stopped at the multiplication, in a build with overflow
\* checks
C36_PanicWitness ==
    /\ sp_mode = "raw"
    /\ sp_pc = "panic"
    /\ RawOffsetOverflows(sp_acc.block_offset)


\* chunk_size summed over the chunks of a Split that are not DontCare
NonDontCareBlocks(split) ==
    SumSeq([i \in 1..Len(split.chunks) |->
              IF split.chunks[i].header.chunk_type = "DontCare" THEN 0
              ELSE split.chunks[i].header.chunk_size])

\* chunk_size summed over the DontCare chunks of a Split that come from the image
InputDontCareBlocks(split) ==
    SumSeq([i \in 1..Len(split.chunks) |->
              IF split.chunks[i].header.chunk_type = "DontCare" /\ ~Synthetic(split.chunks[i])
              THEN split.chunks[i].header.chunk_size ELSE 0])

NonDontCareBefore(k) == SumSeq([j \in 1..(k - 1) |-> NonDontCareBlocks(sp_out[j])])
InputDontCareBefore(k) == SumSeq([j \in 1..(k - 1) |-> InputDontCareBlocks(sp_out[j])])

\* C16 as stated: the leading DontCare of Split k is the sum of the
\* non-DontCare chunk_sizes of the Splits before it, also for images that
\* contain DontCare chunks
C16_Original ==
    ImageDone =>
        \A k \in 1..Len(sp_out) :
            BeginsWithSynthetic(sp_out[k]) =>
                sp_out[k].chunks[1].header.chunk_size = NonDontCareBefore(k)

\* C16: the leading DontCare of Split k is the sum of the non-DontCare
\* chunk_sizes of the Splits before it plus the chunk_sizes of the DontCare
\* chunks of the image that those Splits carry
C16_PrefixCountsImageDontCare ==
    ImageDone =>
        \A k \in 1..Len(sp_out) :
            BeginsWithSynthetic(sp_out[k]) =>
                sp_out[k].chunks[1].header.chunk_size
                    = NonDontCareBefore(k) + InputDontCareBefore(k)

\* a Split that comes after a DontCare chunk of the image and after other chunks
C16_Witness ==
    /\ ImageDone
    /\ \E k \in 1..Len(sp_out) :
          /\ BeginsWithSynthetic(sp_out[k])
          /\ InputDontCareBefore(k) > 0
          /\ NonDontCareBefore(k) > 0


\* q is p or p without its oldest transfers, followed by newer ones
IsPrefix(p, q) == Len(p) <= Len(q) /\ SubSeq(q, 1, Len(p)) = p

\* C17: never more than 3 transfers are outstanding on the OUT endpoint; the
\* helper waits in next_buffer exactly when 3 are outstanding, and a step
\* takes transfers off the endpoint only at its head, the oldest submission,
\* one per completion awaited
C17_AtMostThreeOutstanding ==
    /\ [](Len(pending) <= PipelineDepth)
    /\ [](pc \in {"ext_wait", "gmd_wait"} => Len(pending) = PipelineDepth)
    /\ [][IF pc \in {"cmd_wait", "ext_wait", "gmd_wait", "fin_drain"}
          THEN pending # <<>> /\ IsPrefix(Tail(pending), pending')
          ELSE IsPrefix(pending, pending')]_vars

\* a 4th buffer of a download was submitted after the oldest had completed,
\* and the helper waits again with 3 outstanding
C17_Witness ==
    /\ pc = "ext_wait"
    /\ ~hist.stale
    /\ Len(pending) = PipelineDepth
    /\ Len(hist.sublog) > PipelineDepth


\* nothing was ever queued on the handle finish was called on: no call of
\* extend_from_slice or get_mut_data took anything off left or put a byte
\* into a buffer
NothingEverQueued ==
    /\ dl.left = dl.size
    /\ dl.cur.len = 0
    /\ hist.sub_bytes = 0
    /\ hist.handed = 0

\* C18 as stated: finish on a handle to which no data was ever queued fails
\* with DownloadError::NothingQueued
C18_Original ==
    (ReturnedOp("finish") /\ NothingEverQueued) => result.kind = "NothingQueued"

\* what finish does on such a handle: for an announced size above 0 it fails
\* on the length check with actual 0, for the size 0 it goes on to read the
\* device's response and returns what that response gives
C18_FinishWithNothingQueued ==
    (ReturnedOp("finish") /\ NothingEverQueued) =>
        IF dl.size > 0
        THEN /\ result.kind = "IncorrectDataLength"
             /\ result.expected = dl.size
             /\ result.actual = 0
        ELSE result.kind \in {"Ok", "FastbootFailed", "FastbootParseError",
                              "FastbootUnexpectedReply", "Transfer"}

\* finish returned Ok(()) on a handle of size 0 to which nothing was queued
C18_Witness ==
    /\ ReturnedOp("finish")
    /\ NothingEverQueued
    /\ dl.size = 0
    /\ result.kind = "Ok"


\* C19 as stated: once a transfer of the running operation has completed
\* with an error status the operation has failed with a transport error;
\* for a response read, result.rerr records the error status
C19_Original ==
    result.rerr => (pc = "idle" /\ result.kind = "Transfer")

\* the part of C19 about the command: when send_data's completion has an
\* error status the operation returns a transport error without a read; no
\* operation that reads a response returns a transport error after a read
C19_SendErrorSurfaced ==
    /\ [][(pc = "cmd_wait" /\ pc' = "idle") =>
            /\ result'.kind = "Transfer"
            /\ result'.resps = <<>>
            /\ hist'.reads = 0]_vars
    /\ [](result.resps # <<>> => result.kind # "Transfer")

\* an operation returned Ok on the buffer of a read that completed with an
\* error status
C19_Witness ==
    /\ pc = "idle"
    /\ result.rerr
    /\ result.kind = "Ok"
    /\ Last(result.resps).tag = "OKAY"


HasColon(l) == \E i \in DOMAIN l : l[i] = ":"

\* the position of the last ':' of a line that has one
LastColon(l) == CHOOSE i \in DOMAIN l : l[i] = ":" /\ \A j \in DOMAIN l : j > i => l[j] # ":"

\* str without the spaces at its two ends
Trimmed(str) ==
    CHOOSE t \in { SubSeq(str, a, b) : a \in 1..(Len(str) + 1), b \in 0..Len(str) } :
        \E a \in 1..(Len(str) + 1), b \in 0..Len(str) :
            /\ t = SubSeq(str, a, b)
            /\ \A i \in DOMAIN str : (i < a \/ i > b) => str[i] = " "
            /\ t # <<>> => (t[1] # " " /\ t[Len(t)] # " ")

KeyOf(l) == Trimmed(SubSeq(l, 1, LastColon(l) - 1))
ValueOf(l) == Trimmed(SubSeq(l, LastColon(l) + 1, Len(l)))

\* the map the claim describes for a sequence of responses: each key has the
\* value of the last INFO line with a ':' that carries it
ExpectedVars(q) ==
    LET lines == { i \in DOMAIN q : q[i].tag = "INFO" /\ HasColon(q[i].line) }
    IN  { <<KeyOf(q[i].line), ValueOf(q[i].line)>> :
            i \in { i \in lines : \A j \in lines : j > i => KeyOf(q[j].line) # KeyOf(q[i].line) } }

\* C20: get_all_vars sends one command and reads on over INFO and TEXT,
\* collecting the map of the INFO lines read so far, malformed lines and TEXT
\* left out; on OKAY it returns that map, on FAIL FastbootFailed and on DATA
\* FastbootUnexpectedReply, both without a map
C20_GetAllVarsMap ==
    /\ RunningOp("get_all_vars") =>
          /\ result.sent = 1
          /\ AllInfoOrText(result.resps)
          /\ result.map = ExpectedVars(result.resps)
    /\ (ReturnedOp("get_all_vars") /\ result.resps # <<>>) =>
          /\ AllInfoOrText(Front(result.resps))
          /\ Last(result.resps).tag = "OKAY" =>
                (result.kind = "Ok" /\ result.map = ExpectedVars(Front(result.resps)))
          /\ Last(result.resps).tag = "FAIL" =>
                (result.kind = "FastbootFailed" /\ result.msg = Last(result.resps).msg /\ result.map = {})
          /\ Last(result.resps).tag = "DATA" =>
                (result.kind = "FastbootUnexpectedReply" /\ result.map = {})

\* get_all_vars returned the map of "a:1" followed by "a: 2 ": the later
\* line has overwritten the earlier one
C20_Witness ==
    /\ ReturnedOp("get_all_vars")
    /\ result.kind = "Ok"
    /\ Len(result.resps) = 3
    /\ result.resps[1].line = <<"a", ":", "1">>
    /\ result.resps[2].line = <<"a", ":", " ", "2", " ">>
    /\ result.map = { << <<"a">>, <<"2">> >> }

\* get_all_vars returned a map although the device sent an INFO line
\* without ':' and a TEXT line
C20_SkipWitness ==
    /\ ReturnedOp("get_all_vars")
    /\ result.kind = "Ok"
    /\ Len(result.resps) = 3
    /\ result.resps[1].line = <<"a", "b">>
    /\ result.resps[2].tag = "TEXT"
    /\ result.map = {}

\* runs followed by more runs
RECURSIVE JoinRuns(_, _)
JoinRuns(runs, more) ==
    IF more = <<>> THEN runs
    ELSE JoinRuns(AppendRun(runs, Head(more).from, Head(more).to - Head(more).from), Tail(more))

\* the runs of the buffers submitted up to the i-th, in submission order
RECURSIVE SubmittedUpTo(_)
SubmittedUpTo(i) ==
    IF i = 0 THEN <<>> ELSE JoinRuns(SubmittedUpTo(i - 1), hist.sublog[i].data)

\* runs followed by the runs of the current buffer
WithCurrent(runs) == JoinRuns(runs, dl.cur.data)

Submitted == SubmittedUpTo(Len(hist.sublog))

\* the first n bytes of the stream, each once and in order
WholeStream(n) == IF n = 0 THEN <<>> ELSE <<[from |-> 0, to |-> n]>>

\* finish has got past its length check
FinishSubmitted == InFinish \/ (pc = "idle" /\ result.op = "finish" /\ result.kind # "IncorrectDataLength")

CommandSent == pc = "cmd_wait"

\* C34 as stated: when a command is sent the OUT endpoint holds nothing
\* else, so the completion send_data awaits is the command's own
C34_Original ==
    CommandSent => (Len(pending) = 1 /\ Head(pending).kind = "cmd")

\* C34, where it holds: between operations the OUT endpoint has a transfer
\* outstanding only after a handle was dropped or its finish failed on the
\* length or on a transfer, in this operation or before the last command
C34_LeftoversOnlyFromAbandoned ==
    (pc = "idle" /\ pending # <<>>) =>
        \/ hist.stale
        \/ result.op = "drop"
        \/ result.op = "finish" /\ result.kind \in {"IncorrectDataLength", "Transfer"}

\* a command sent behind two payload buffers of a download that was given up:
\* send_data awaits the completion of the first of them
C34_Witness ==
    /\ CommandSent
    /\ Len(pending) = 3
    /\ Head(pending).kind = "data"
    /\ pending[3].kind = "cmd"

\* the helper awaits a completion of the OUT endpoint: in next_buffer, called
\* by extend_from_slice or get_mut_data, or in the loop of finish
HelperWaits == pc \in {"ext_wait", "gmd_wait", "fin_drain"}

\* C35: a finish that got past its length check returns; the helper awaits a
\* completion only while the OUT endpoint has a transfer outstanding; and
\* when finish has returned Ok the OUT endpoint has none
C35_FinishReturns ==
    /\ InFinish ~> (pc = "idle" /\ result.op = "finish")
    /\ [](HelperWaits => pending # <<>>)
    /\ [](Finished("Ok") => pending = <<>>)

\* finish has returned Ok for a download of five buffers that was opened
\* behind the transfers of an abandoned one
C35_Witness ==
    /\ Finished("Ok")
    /\ dl.size = 5000000
    /\ hist.handed = dl.size
    /\ hist.stale
    /\ pending = <<>>

\* the same for a download opened on an idle endpoint
C35_CleanWitness ==
    /\ Finished("Ok")
    /\ dl.size = 5000000
    /\ hist.handed = dl.size
    /\ ~hist.stale
    /\ Len(hist.sublog) = PipelineDepth + 2

(***************************************************************************)
(* Properties of the Splits handed to the download helper                  *)
(***************************************************************************)
\* the chunks of the Splits returned
OutChunks == Flatten([k \in 1..Len(sp_out) |-> sp_out[k].chunks])

\* the bytes written when a Split is streamed as in the flash command of
\* fastbootrs: the file header, then for each chunk its header and size bytes
StreamedBytes(split) ==
    FILE_HEADER_BYTES_LEN
      + SumSeq([i \in 1..Len(split.chunks) |-> CHUNK_HEADER_BYTES_LEN + split.chunks[i].size])

\* the DontCare prefix of a Split opened after some blocks reads nothing
PrefixReadsNothing ==
    \A k \in 1..Len(sp_out) :
        (Len(sp_out[k].chunks) > 0 /\ EmittedBefore(k) > 0) =>
            (sp_out[k].chunks[1].offset = 0 /\ sp_out[k].chunks[1].size = 0)

\* C21 as stated: every SplitChunk returned has size = header.total_size - 12,
\* a synthetic prefix has offset 0 and size 0, and a streamed Split has
\* sparse_size() bytes
C21_Original ==
    SplitDone =>
        /\ \A i \in 1..Len(OutChunks) :
              OutChunks[i].size = OutChunks[i].header.total_size - CHUNK_HEADER_BYTES_LEN
        /\ PrefixReadsNothing
        /\ \A k \in 1..Len(sp_out) : StreamedBytes(sp_out[k]) = sparse_size(sp_out[k])

\* C21: every SplitChunk returned has size = data_size of its header, which
\* is total_size - 12, or 0 for a total_size below 12, and a synthetic prefix
\* has offset 0 and size 0; when no input chunk has a total_size below 12 a
\* streamed Split has sparse_size() bytes
C21_SizeIsDataSize ==
    SplitDone =>
        /\ \A i \in 1..Len(OutChunks) :
              /\ OutChunks[i].size = data_size(OutChunks[i].header)
              /\ OutChunks[i].header.total_size >= CHUNK_HEADER_BYTES_LEN =>
                    OutChunks[i].size = OutChunks[i].header.total_size - CHUNK_HEADER_BYTES_LEN
        /\ PrefixReadsNothing
        /\ NoShortChunk =>
              \A k \in 1..Len(sp_out) : StreamedBytes(sp_out[k]) = sparse_size(sp_out[k])

\* an image cut into Splits with a prefix, a Raw part and a Fill chunk
C21_Witness ==
    /\ ImageDone
    /\ NoShortChunk
    /\ Len(sp_out) >= 2
    /\ BeginsWithSynthetic(sp_out[2])
    /\ \E i \in 1..Len(OutChunks) : OutChunks[i].header.chunk_type = "Fill"
    /\ \E i \in 1..Len(OutChunks) :
          OutChunks[i].header.chunk_type = "Raw" /\ OutChunks[i].size >= 2 * sp_bs


\* chunk_size summed over the chunks of a Split, its prefix included
BlocksOfChunks(split) ==
    SumSeq([i \in 1..Len(split.chunks) |-> split.chunks[i].header.chunk_size])

\* the blocks of the input: the chunk_size of every chunk of the image, or
\* the blocks of the raw image
InputBlocks ==
    IF sp_mode = "image"
    THEN SumSeq([i \in 1..Len(sp_chunks) |-> sp_chunks[i].chunk_size])
    ELSE raw_blocks_of(sp_raw)

\* C22: the header of every Split returned has the block size of the input,
\* chunks = the number of its chunks, checksum 0 and blocks = the sum of the
\* chunk_size of its chunks, prefix included; blocks of a Split is the number
\* of blocks of the input placed in the Splits up to it, and blocks of the
\* last Split the sum of chunk_size over the input
C22_SplitHeaderRecomputed ==
    SplitDone =>
        /\ \A k \in 1..Len(sp_out) :
              /\ sp_out[k].header.block_size = sp_bs
              /\ sp_mode = "raw" => sp_out[k].header.block_size = DEFAULT_BLOCKSIZE
              /\ sp_out[k].header.chunks = Len(sp_out[k].chunks)
              /\ sp_out[k].header.checksum = 0
              /\ sp_out[k].header.blocks = BlocksOfChunks(sp_out[k])
              /\ sp_out[k].header.blocks = EmittedBefore(k + 1)
        /\ Len(sp_out) > 0 => sp_out[Len(sp_out)].header.blocks = InputBlocks

\* three Splits of an image with a Raw chunk cut in parts: the blocks of
\* their headers grow up to the blocks of the image
C22_Witness ==
    /\ ImageDone
    /\ Len(sp_out) = 3
    /\ BeginsWithSynthetic(sp_out[2])
    /\ BeginsWithSynthetic(sp_out[3])
    /\ sp_out[1].header.blocks > 0
    /\ sp_out[2].header.blocks > sp_out[1].header.blocks
    /\ sp_out[3].header.blocks > sp_out[2].header.blocks
    /\ sp_out[3].header.blocks = InputBlocks
    /\ sp_out[3].header.chunks >= 2


\* split_image was called as in the test split_simple and returned
SimpleDone ==
    /\ ImageDone
    /\ sp_bs = DEFAULT_BLOCKSIZE
    /\ sp_chunks = SimpleChunks
    /\ sp_size = SimpleBudget

\* one Split with the header of the image and the two chunks as they are, the
\* second one read from offset second
OneSplitVerbatim(second) ==
    /\ Len(sp_out) = 1
    /\ sp_out[1].header = FileHeader(DEFAULT_BLOCKSIZE, 1024, 2, 0)
    /\ sp_out[1].chunks =
          <<SplitChunk(SimpleChunks[1], 40, 4),
            SplitChunk(SimpleChunks[2], second, (1024 - 8) * DEFAULT_BLOCKSIZE)>>

\* C25 as stated: the image of split_simple gives one Split with both chunks
\* verbatim and the source offsets 40 and 52
C25_Original == SimpleDone => OneSplitVerbatim(52)

\* C25: the image of split_simple gives one Split with both chunks verbatim
\* and the source offsets 40 and 56, the second payload following the 4
\* payload bytes of the Fill chunk and the second chunk header
C25_SplitSimple == SimpleDone => OneSplitVerbatim(56)

\* split_image returned for the image of split_simple
C25_Witness == SimpleDone /\ Len(sp_out) = 1 /\ Len(sp_out[1].chunks) = 2

(***************************************************************************)
(* Properties of one step of the fold of split_image                       *)
(***************************************************************************)
\* the chunk the next step of the fold takes
NextChunk == sp_chunks[sp_idx + 1]

FoldStep == sp_pc = "fold" /\ sp_mode = "image" /\ sp_idx < Len(sp_chunks)

\* what is left of the budget in a Split that holds the chunks cs
Remaining(cs) ==
    sp_size - FILE_HEADER_BYTES_LEN - SumSeq([i \in 1..Len(cs) |-> cs[i].header.total_size])

\* the blocks of the image before the chunk the next step takes
BlocksBeforeNext == SumSeq([j \in 1..sp_idx |-> sp_chunks[j].chunk_size])

\* the chunk lists a step of the fold works on: the Split that was open
\* before the step as it is after it, then every Split the step opened, the
\* last of them being the Split that is open after the step
Segments(acc, acc2) ==
    [j \in 1..(Len(acc2.splits) - Len(acc.splits) + 1) |->
        IF Len(acc.splits) + j <= Len(acc2.splits)
        THEN acc2.splits[Len(acc.splits) + j].chunks
        ELSE acc2.builder.chunks]

\* the step left the Splits finished before it as they were, and the chunks
\* of the Split that was open at their places
KeepsEarlier(acc, acc2) ==
    /\ Len(acc2.splits) >= Len(acc.splits)
    /\ SubSeq(acc2.splits, 1, Len(acc.splits)) = acc.splits
    /\ IsPrefix(acc.builder.chunks, Segments(acc, acc2)[1])
    /\ \A k \in (Len(acc.splits) + 1)..Len(acc2.splits) :
          acc2.splits[k] = Split_from_chunks(acc2.splits[k].chunks, sp_bs)

\* the whole blocks of a Raw part that fit behind the chunks pre
BlocksFitting(pre) == Max(Remaining(pre) - CHUNK_HEADER_BYTES_LEN, 0) \div sp_bs

\* the number of chunks of segment j that are not a part of the Raw chunk:
\* the chunks the open Split had, or the prefix of a new Split
BaseLen(acc, segs, j) ==
    IF j = 1 THEN Len(acc.builder.chunks)
    ELSE IF segs[j] # <<>> /\ segs[j][1].header.chunk_type = "DontCare" THEN 1 ELSE 0

\* the blocks of the Raw chunk put into segment j
PartBlocks(acc, segs, j) ==
    IF Len(segs[j]) > BaseLen(acc, segs, j)
    THEN segs[j][Len(segs[j])].header.chunk_size
    ELSE 0

PartBlocksBefore(acc, segs, j) == SumSeq([i \in 1..(j - 1) |-> PartBlocks(acc, segs, i)])

\* the Raw chunk c was cut over the segments as C26 says; with prefixAlways
\* every new Split has a DontCare prefix, without it only a Split opened
\* after at least one block
RawCut(acc, acc2, c, payload, blockOffset, prefixAlways) ==
    LET segs == Segments(acc, acc2)
    IN  /\ KeepsEarlier(acc, acc2)
        /\ \A j \in 1..Len(segs) :
              LET done == PartBlocksBefore(acc, segs, j)
                  at == blockOffset + done
                  pre == IF j = 1 THEN acc.builder.chunks
                         ELSE IF prefixAlways \/ at > 0
                         THEN <<SplitChunk(new_dontcare(at), 0, 0)>>
                         ELSE <<>>
                  n == Min(BlocksFitting(pre), c.chunk_size - done)
              IN  IF n >= 1
                  THEN segs[j] = Append(pre, SplitChunk(ChunkHeader("Raw", n, CHUNK_HEADER_BYTES_LEN + n * sp_bs),
                                                        payload + done * sp_bs, n * sp_bs))
                  ELSE /\ segs[j] = pre
                       /\ j = 1
              \* a new Split is opened only when the Split before it is full
        /\ \A j \in 1..(Len(segs) - 1) :
              BlocksFitting(segs[j]) = 0 /\ PartBlocksBefore(acc, segs, j + 1) < c.chunk_size
        /\ PartBlocksBefore(acc, segs, Len(segs) + 1) = c.chunk_size

\* the next step of the fold takes a Raw chunk that does not fit whole
RawCutStep ==
    /\ FoldStep
    /\ NextChunk.chunk_type = "Raw"
    /\ ~(Remaining(sp_acc.builder.chunks) > NextChunk.total_size)

\* C26 as stated: a Raw chunk that does not fit whole is cut into Raw parts
\* of min(blocks that fit, blocks left) >= 1 blocks, read from the payload
\* offset of the chunk plus the blocks already emitted; a Split in which no
\* whole block fits is finished and every new Split begins with a DontCare
\* prefix of the chunk's block offset plus the blocks already emitted
C26_Original ==
    [][(RawCutStep /\ NoShortChunk) =>
          RawCut(sp_acc, sp_acc', NextChunk, PayloadStart(sp_idx + 1), BlocksBeforeNext, TRUE)]_vars

\* C26: the same, where a new Split begins with the DontCare prefix when the
\* chunk's block offset plus the blocks already emitted is above 0, and has
\* no prefix when it is 0
C26_RawCutInWholeBlocks ==
    [][(RawCutStep /\ NoShortChunk) =>
          RawCut(sp_acc, sp_acc', NextChunk, PayloadStart(sp_idx + 1), BlocksBeforeNext, FALSE)]_vars

\* a Raw chunk of 3 blocks behind a Fill chunk was cut over three new Splits,
\* no block of it fitting the Split that was open
C26_Witness ==
    /\ sp_pc = "fold"
    /\ sp_mode = "image"
    /\ sp_idx = 2
    /\ sp_chunks[1].chunk_type = "Fill"
    /\ sp_chunks[2] = new_raw(3, sp_bs)
    /\ Len(sp_acc.splits) = 3
    /\ Len(sp_acc.splits[1].chunks) = 1
    /\ Len(sp_acc.builder.chunks) = 2

\* the next chunk as a SplitChunk: its header as it is, its payload where it
\* lies in the image
NextWhole == SplitChunk(NextChunk, PayloadStart(sp_idx + 1), data_size(NextChunk))

\* the next step of the fold takes a Fill, DontCare or Crc32 chunk
NonRawStep == FoldStep /\ NextChunk.chunk_type # "Raw"

\* the chunks a Split opened before the next chunk begins with
PrefixBeforeNext(prefixAlways) ==
    IF prefixAlways \/ BlocksBeforeNext > 0
    THEN <<SplitChunk(new_dontcare(BlocksBeforeNext), 0, 0)>>
    ELSE <<>>

\* a step that takes a chunk that is not Raw: the chunk goes whole into the
\* open Split when it fits; when not, the open Split is finished and the
\* chunk goes first, or directly behind the prefix, into a new Split; when it
\* does not fit there either the call fails and returns no Splits
NonRawPlaced(acc, acc2, pc2, out2, prefixAlways) ==
    LET old == acc.builder.chunks
        pre == PrefixBeforeNext(prefixAlways)
    IN  IF Remaining(old) > NextChunk.total_size
        THEN /\ pc2 = "fold"
             /\ acc2.splits = acc.splits
             /\ acc2.builder.chunks = Append(old, NextWhole)
        ELSE IF Remaining(pre) > NextChunk.total_size
        THEN /\ pc2 = "fold"
             /\ acc2.splits = Append(acc.splits, Split_from_chunks(old, sp_bs))
             /\ acc2.builder.chunks = Append(pre, NextWhole)
        ELSE /\ pc2 = "err"
             /\ out2 = <<>>

\* the places of the Splits returned whose payload is that of input chunk i
PlacesOf(i) == { p \in 1..Len(OutChunks) : OutChunks[p].offset = PayloadStart(i) }

\* every chunk of the input that is not Raw is at exactly one place of the
\* Splits returned, whole and with its header as it is
NonRawOnce ==
    \A i \in 1..Len(sp_chunks) :
        sp_chunks[i].chunk_type # "Raw" =>
            /\ Cardinality(PlacesOf(i)) = 1
            /\ \A p \in PlacesOf(i) :
                  OutChunks[p] = SplitChunk(sp_chunks[i], PayloadStart(i), data_size(sp_chunks[i]))
            /\ Cardinality({ p \in 1..Len(OutChunks) :
                               /\ OutChunks[p].header = sp_chunks[i]
                               /\ OutChunks[p].offset # 0 })
                 = Cardinality({ j \in 1..Len(sp_chunks) : sp_chunks[j] = sp_chunks[i] })

\* C27 as stated: a Fill, DontCare or Crc32 chunk is never divided; a chunk
\* that does not fit the open Split is placed directly after the DontCare
\* prefix of a new Split, and the call fails with TooSmall and without
\* Splits when it does not fit there
C27_Original ==
    /\ []((ImageDone /\ NoShortChunk) => NonRawOnce)
    /\ [][(NonRawStep /\ NoShortChunk) => NonRawPlaced(sp_acc, sp_acc', sp_pc', sp_out', TRUE)]_vars

\* C27: the same, where the new Split has the DontCare prefix when blocks
\* were emitted before the chunk, and the chunk is its first chunk when none
\* were
C27_NonRawNeverDivided ==
    /\ []((ImageDone /\ NoShortChunk) => NonRawOnce)
    /\ [][(NonRawStep /\ NoShortChunk) => NonRawPlaced(sp_acc, sp_acc', sp_pc', sp_out', FALSE)]_vars

\* a Fill chunk that did not fit the first Split is the chunk behind the
\* prefix of the second Split
C27_Witness ==
    /\ ImageDone
    /\ NoShortChunk
    /\ Len(sp_out) = 2
    /\ Len(sp_chunks) >= 2
    /\ sp_chunks[2].chunk_type = "Fill"
    /\ Len(sp_out[1].chunks) = 1
    /\ Len(sp_out[2].chunks) >= 2
    /\ Synthetic(sp_out[2].chunks[1])
    /\ sp_out[2].chunks[2] = SplitChunk(sp_chunks[2], PayloadStart(2), data_size(sp_chunks[2]))

\* the step put the next chunk whole into the Split that was open
PlacedWhole(acc, acc2) ==
    /\ acc2.splits = acc.splits
    /\ acc2.builder.chunks = Append(acc.builder.chunks, NextWhole)

\* the next chunk is a Raw chunk of at least one block whose total_size
\* agrees with its chunk_size
NextIsSoundRaw ==
    /\ NextChunk.chunk_type = "Raw"
    /\ NextChunk.chunk_size >= 1
    /\ NextChunk.total_size = CHUNK_HEADER_BYTES_LEN + NextChunk.chunk_size * sp_bs

\* C28 as stated: a chunk of any type is placed whole into the current Split
\* only when its total_size is below the remaining space, not when it
\* equals it
C28_Original ==
    [][(FoldStep /\ NoShortChunk /\ PlacedWhole(sp_acc, sp_acc')) =>
          Remaining(sp_acc.builder.chunks) > NextChunk.total_size]_vars

\* C28: a chunk whose total_size is below the remaining space is placed
\* whole into the current Split; a Fill, DontCare or Crc32 chunk is placed
\* there only then; a Raw chunk is also placed there whole, by add_raw, when
\* its total_size equals the remaining space, and no chunk when its
\* total_size is above it
C28_StrictFitExceptRaw ==
    [][(FoldStep /\ NoShortChunk) =>
          LET space == Remaining(sp_acc.builder.chunks)
              placed == PlacedWhole(sp_acc, sp_acc')
          IN  /\ space > NextChunk.total_size => placed
              /\ space < NextChunk.total_size => ~placed
              /\ space = NextChunk.total_size => (placed <=> NextIsSoundRaw)]_vars

\* a Fill chunk whose total_size was the remaining space of the first Split
\* is in the second Split
C28_Witness ==
    /\ ImageDone
    /\ NoShortChunk
    /\ Len(sp_chunks) >= 2
    /\ sp_chunks[2].chunk_type = "Fill"
    /\ Len(sp_out) = 2
    /\ Len(sp_out[1].chunks) = 1
    /\ Remaining(sp_out[1].chunks) = sp_chunks[2].total_size
    /\ sp_out[2].chunks[Len(sp_out[2].chunks)].header = sp_chunks[2]

\* split_image has passed its minimum-budget check
PassedCheck ==
    /\ sp_mode = "image"
    /\ sp_pc \in {"fold", "done"} \/ (sp_pc = "err" /\ sp_idx > 0)

\* a Fill chunk fits a Split that was just opened, without a prefix and with
\* one
FillFitsFresh ==
    /\ Remaining(<<>>) > new_fill(1).total_size
    /\ Remaining(<<SplitChunk(new_dontcare(1), 0, 0)>>) > new_fill(1).total_size

\* the image has only Raw, Fill and DontCare chunks with the total_size of
\* their type
OnlyRawFillDontCare ==
    /\ WellFormedRaw
    /\ \A i \in 1..Len(sp_chunks) :
          /\ sp_chunks[i].chunk_type \in {"Raw", "Fill", "DontCare"}
          /\ sp_chunks[i].chunk_type = "Fill" => sp_chunks[i].total_size = CHUNK_HEADER_BYTES_LEN + 4
          /\ sp_chunks[i].chunk_type = "DontCare" => sp_chunks[i].total_size = CHUNK_HEADER_BYTES_LEN

\* C29 as stated: once the minimum-budget check has passed a Fill chunk fits
\* every freshly opened Split, and split_image does not return TooSmall for
\* an image of well-formed Raw, Fill and DontCare chunks
C29_Original ==
    PassedCheck =>
        /\ FillFitsFresh
        /\ OnlyRawFillDontCare => sp_pc # "err"

\* the same for block sizes above 4 and below 2^32 - 52, for which the
\* minimum budget leaves more than 16 bytes behind a prefix
C29_FillFitsAboveBlockSize4 ==
    (PassedCheck /\ sp_bs > 4) =>
        /\ FillFitsFresh
        /\ OnlyRawFillDontCare => sp_pc # "err"

\* split_image returned TooSmall on the Fill chunk of an image of a Raw and
\* a Fill chunk, after the minimum-budget check had passed
C29_Witness ==
    /\ sp_pc = "err"
    /\ sp_mode = "image"
    /\ sp_idx = 2
    /\ sp_chunks = <<new_raw(1, sp_bs), new_fill(1)>>
    /\ sp_bs = 4
    /\ sp_size = MinBudget(sp_bs)
    /\ sp_out = <<>>

(***************************************************************************)
(* Termination of the planner and the number of Splits                     *)
(***************************************************************************)
\* split_image or split_raw has returned, or panicked
SplitEnded == sp_pc \in {"done", "err", "panic"}

NonRawChunks == Cardinality({ i \in 1..Len(sp_chunks) : sp_chunks[i].chunk_type # "Raw" })

\* Raw chunks of the input without a block
EmptyRawChunks ==
    Cardinality({ i \in 1..Len(sp_chunks) :
                    sp_chunks[i].chunk_type = "Raw" /\ sp_chunks[i].chunk_size = 0 })

RawBlocksOfInput ==
    IF sp_mode = "image"
    THEN SumSeq([i \in 1..Len(sp_chunks) |->
                   IF sp_chunks[i].chunk_type = "Raw" THEN sp_chunks[i].chunk_size ELSE 0])
    ELSE raw_blocks_of(sp_raw)

\* the chunks of a Split without its synthetic prefix
OwnChunks(split) ==
    IF BeginsWithSynthetic(split) THEN Tail(split.chunks) ELSE split.chunks

\* a Split that was opened for a part of a Raw chunk holds a block of it
OpensWithBlock(split) ==
    (OwnChunks(split) # <<>> /\ OwnChunks(split)[1].header.chunk_type = "Raw")
        => OwnChunks(split)[1].header.chunk_size >= 1

EmptySplit == [header |-> FileHeader(sp_bs, 0, 0, 0), chunks |-> <<>>]

C33_RawWitness == RawDone /\ raw_blocks_of(sp_raw) = 0 /\ sp_out = <<>>

(***************************************************************************)
(* Properties of flash                                                     *)
(***************************************************************************)
IsDataCall(e) == e.call \in {"get_mut_data", "read_exact"}

\* the calls of the log but those of the while loop, with what they were given
Outline ==
    LET IsStep(e) == ~IsDataCall(e)
        steps == SelectSeq(fl_log, IsStep)
    IN  [i \in 1..Len(steps) |-> <<steps[i].call, steps[i].arg>>]

\* the calls the claim lists for one Split
SplitOutline(split) ==
    <<  <<"download", sparse_size(split)>>,
        <<"extend_from_slice", FileHeader_to_bytes(split.header)>>  >>
      \o Flatten([c \in 1..Len(split.chunks) |->
                    <<  <<"extend_from_slice", ChunkHeader_to_bytes(split.chunks[c].header)>>,
                        <<"seek", split.chunks[c].offset>>  >>])
      \o <<  <<"finish", 0>>, <<"flash", Target>>  >>

\* and for the Splits in list order
FlashOutline == Flatten([k \in 1..Len(fl_splits) |-> SplitOutline(fl_splits[k])])

\* the chunks of the Splits in list order
FlashChunks == Flatten([k \in 1..Len(fl_splits) |-> fl_splits[k].chunks])

\* the chunk the seek at position i of the log is for
SeekChunk(i) == FlashChunks[Cardinality({ k \in 1..i : fl_log[k].call = "seek" })]

\* the payload of a chunk is read in pieces from its source offset on, each
\* piece into the slice get_mut_data returned, until chunk.size bytes are read
PayloadInOrder ==
    \A i \in 1..Len(fl_log) :
        LET e == fl_log[i]
        IN  /\ e.call = "get_mut_data" =>
                  /\ i > 1
                  /\ \/ fl_log[i - 1].call = "seek" /\ e.arg = SeekChunk(i - 1).size
                     \/ /\ fl_log[i - 1].call = "read_exact"
                        /\ e.arg = fl_log[i - 2].arg - fl_log[i - 1].n
                  /\ e.arg > 0
                  /\ e.ok => (1 <= e.n /\ e.n <= e.arg)
            /\ e.call = "read_exact" =>
                  /\ i > 2
                  /\ fl_log[i - 1].call = "get_mut_data"
                  /\ e.n = fl_log[i - 1].n
                  /\ \/ fl_log[i - 2].call = "seek" /\ e.arg = fl_log[i - 2].arg
                     \/ /\ fl_log[i - 2].call = "read_exact"
                        /\ e.arg = fl_log[i - 2].arg + fl_log[i - 2].n
            /\ (~IsDataCall(e) /\ i > 1) =>
                  /\ fl_log[i - 1].call # "get_mut_data"
                  /\ fl_log[i - 1].call = "read_exact" => fl_log[i - 1].n = fl_log[i - 2].arg
                  /\ fl_log[i - 1].call = "seek" => SeekChunk(i - 1).size = 0

\* a call that returned an error is the last call
ErrorEnds ==
    /\ \A i \in 1..Len(fl_log) : ~fl_log[i].ok => i = Len(fl_log)
    /\ fl_pc = "failed" <=> (fl_log # <<>> /\ ~fl_log[Len(fl_log)].ok)

\* C31: the calls of flash are, Split after Split in list order,
\* download(sparse_size), extend_from_slice of the 28 header bytes, for each
\* chunk extend_from_slice of its 12 header bytes, a seek to its source
\* offset and its payload read from there, then finish and flash(target); a
\* call is made only after every earlier call returned Ok, so the next
\* download follows a flash that succeeded and the first error is the last
\* call; flash returns Ok(()) after all of them
C31_FlashInOrder ==
    /\ ErrorEnds
    /\ IsPrefix(Outline, FlashOutline)
    /\ PayloadInOrder
    /\ fl_pc = "done" => Outline = FlashOutline

\* two Splits flashed, a payload of 8 bytes read in three pieces
C31_Witness ==
    /\ fl_pc = "done"
    /\ Len(fl_splits) = 2
    /\ fl_splits[1] # fl_splits[2]
    /\ \E i \in 1..Len(fl_log) : fl_log[i].call = "read_exact" /\ fl_log[i].arg = 46

\* the error of a download: nothing is called after it
C31_AbortWitness ==
    /\ fl_pc = "failed"
    /\ Len(fl_splits) = 2
    /\ fl_i = 1
    /\ fl_log[Len(fl_log)].call = "download"

(***************************************************************************)
(* Properties of the byte form of the headers                              *)
(***************************************************************************)
\* C23: a FileHeader, and a ChunkHeader, written with to_bytes and read with
\* from_bytes comes back as Ok of the header that was written
C23_HeadersRoundTrip ==
    cd_pc = "echoed" => cd_res = ParseOk(cd_given)

\* a Crc32 chunk header with chunk_size 0xffffffff came back
C23_Witness ==
    /\ cd_pc = "echoed"
    /\ cd_what = "chunk"
    /\ cd_given.chunk_type = "Crc32"
    /\ cd_given.chunk_size = FromTop(1)
    /\ cd_res.ok
    /\ cd_res.header = cd_given

\* what the claim gives for 28 bytes with the fields f
ExpectedOfFile(f) ==
    IF f.magic # HEADER_MAGIC THEN ParseErr("UnknownMagic")
    ELSE IF f.major # 1 \/ f.minor # 0 THEN ParseErr("UnknownVersion")
    ELSE IF f.header_len # 28 \/ f.chunk_header_len # 12 THEN ParseErr("UnexpectedSize")
    ELSE ParseOk(f.header)

\* what the claim gives for 12 bytes with the fields f
ExpectedOfChunk(f) ==
    IF f.chunk_type \notin 51905..51908 THEN ParseErr("UnknownChunkType")
    ELSE ParseOk([chunk_type |-> CASE f.chunk_type = 51905 -> "Raw"
                                   [] f.chunk_type = 51906 -> "Fill"
                                   [] f.chunk_type = 51907 -> "DontCare"
                                   [] f.chunk_type = 51908 -> "Crc32",
                  chunk_size |-> f.chunk_size,
                  total_size |-> f.total_size])

\* C24: FileHeader::from_bytes gives the error of the first check that fails,
\* in the order magic, major, minor, header size, chunk-header size, and Ok
\* of the four other fields when none fails; ChunkHeader::from_bytes gives
\* UnknownChunkType exactly for a type outside 0xcac1..0xcac4, whatever the
\* reserved bytes
C24_ParseErrorsInOrder ==
    cd_pc = "parsed" =>
        cd_res = IF cd_what = "file" THEN ExpectedOfFile(cd_given) ELSE ExpectedOfChunk(cd_given)

\* 28 bytes whose only wrong field is the chunk-header size, which agrees
\* with 12 in its low byte
C24_Witness ==
    /\ cd_pc = "parsed"
    /\ cd_what = "file"
    /\ cd_given.magic = HEADER_MAGIC
    /\ cd_given.major = 1
    /\ cd_given.minor = 0
    /\ cd_given.header_len = FILE_HEADER_BYTES_LEN
    /\ cd_given.chunk_header_len = CHUNK_HEADER_BYTES_LEN + 256
    /\ cd_res = ParseErr("UnexpectedSize")

\* the bytes of the tests file_header_parse and chunk_header_parse of lib.rs
\* are read as the tests expect
ParsesLikeTheTests ==
    /\ FileHeader_from_bytes(<<58, 255, 38, 237, 1, 0, 0, 0, 28, 0, 12, 0, 0, 16, 0, 0,
                               119, 57, 20, 0, 177, 0, 0, 0, 170, 0, 0, 204>>)
         = ParseOk(FileHeader(4096, 1325431, 177, FromTop(872415062)))
    /\ ChunkHeader_from_bytes(<<195, 202, 0, 0, 31, 241, 170, 187, 12, 0, 0, 0>>)
         = ParseOk(ChunkHeader("DontCare", FromTop(1146425057), CHUNK_HEADER_BYTES_LEN))

====
